---- MODULE Spec2Model ----
(***************************************************************************)
(* Model of the dice in-memory engine (internal/datastructures/sortedsets   *)
(* and collaborators).  The sorted set is a skip list of heap nodes plus a  *)
(* member -> node map; nodes are addressed by integer ids that stand for Go  *)
(* pointers.  Members are the ordered type T (integers here), scores are     *)
(* finite float64 values (integers here).  Level indices are 0-based as in  *)
(* the Go code; the slice element forward[i] is the sequence element i + 1. *)
(* The Store maps keys to collection instances; the command evaluators    *)
(* (sorted set, hash, list, bloom) reach the instances through it.  A List  *)
(* is a doubly linked list of heap nodes; set.NewSet builds a Set from      *)
(* strings.                                                                 *)
(***************************************************************************)
EXTENDS Integers, Sequences, FiniteSets, TLC

\* ------------------------------------------------------------------ bounds
MaxMember == 3
MaxScore == 2
MaxDrawLevel == 2
MaxBatch == 2
MaxReaders == 1
MaxWriters == 2
MaxKey == 2
MaxValue == 2
MaxDuration == 1
MaxNow == 2
MaxExpires == 2
MaxEvalKey == 1
MaxEvalMember == 2
MaxEvalScore == 3
MaxPairs == 2
MaxOptions == 2
MaxListLen == 2
MaxListNodes == 3
MaxElement == 2
MaxSetValues == 3
MaxSetInt == 2
MaxSetFrac == 1
MaxEvaluators == 2

\* ------------------------------------------------------- program constants
maxLevel == 32
MaxInt8 == 127
MaxInt16 == 32767
MaxInt32 == 2147483647

Nil == -1
Header == 0
NegInf == -1

Members == 1..MaxMember
Scores == 1..MaxScore
NodeIds == 1..(2 * MaxMember)
RangeIdx == (0 - (MaxMember + 1))..(MaxMember + 1)

VARIABLES dict, node, level, length, op, args, ret, pre, pc, held, writer, pending, local,
          twin, store, expires, now, accessed, lastPut, expKeys,
          heap, epc, frame, list, since

vars == <<dict, node, level, length, op, args, ret, pre, pc, held, writer, pending, local,
          twin, store, expires, now, accessed, lastPut, expKeys,
          heap, epc, frame, list, since>>
ssVars == <<dict, node, level, length>>
callVars == <<op, args, ret, pre>>
lockVars == <<pc, held, writer, pending, local>>
storeVars == <<store, expires, now, accessed, lastPut, expKeys>>
evalVars == <<heap, epc, frame>>
\* What the calls on the one SortedSet leave alone.
outsideSS == <<twin, storeVars, evalVars, list, since>>

\* --------------------------------------------------------------- helpers
Range(f) == {f[x] : x \in DOMAIN f}

Perms(S) == {q \in [1..Cardinality(S) -> S] : \A i, j \in 1..Cardinality(S) : q[i] = q[j] => i = j}

\* ----------------------------------------------------------- skip list nodes
newSkipListNode(lvl, score, member) ==
    [member |-> member, score |-> score, forward |-> [i \in 1..lvl |-> Nil]]

\* A slot of the heap that no pointer refers to.
FreeNode == newSkipListNode(0, 0, 0)

\* The SortedSet value: the four fields the operations read and write.
SS == [dict |-> dict, node |-> node, level |-> level, length |-> length]

NewSortedSet ==
    [dict   |-> [m \in Members |-> Nil],
     node   |-> [id \in NodeIds \cup {Header} |->
                    IF id = Header THEN newSkipListNode(maxLevel, NegInf, 0) ELSE FreeNode],
     level  |-> 1,
     length |-> 0]

\* Ids some pointer still refers to: reachable from the header or the dict.
\* Everything else is garbage the Go runtime reclaims.
Succ(nd, x) == Range(nd[x].forward) \ {Nil}

RECURSIVE Closure(_, _)
Closure(nd, set) ==
    LET next == set \cup UNION {Succ(nd, x) : x \in set}
    IN  IF next = set THEN set ELSE Closure(nd, next)

Reach(ss) == Closure(ss.node, {Header} \cup (Range(ss.dict) \ {Nil}))

Collect(ss) ==
    [ss EXCEPT !.node = [id \in DOMAIN ss.node |->
                            IF id \in Reach(ss) THEN ss.node[id] ELSE FreeNode]]

\* The address of a fresh node: any slot no pointer refers to.  The choice is
\* unobservable, so the slot named after the member is taken when it is free.
Alloc(ss, member) ==
    LET free == NodeIds \ Reach(ss)
    IN  IF member \in free THEN member
        ELSE CHOOSE id \in free : \A other \in free : id <= other

\* ------------------------------------------------------------ search loops
\* Mutant of Before: the tie on equal scores is not broken by member.
Before_NoTieBreak(n, score, member) ==
    n.score < score

\* x.forward[i].score < score || (== && x.forward[i].member < member)
Before(n, score, member) ==
    n.score < score \/ (n.score = score /\ n.member < member)

\* The inner for loop of insertNode/deleteNode at level i, starting at x.
RECURSIVE Advance(_, _, _, _, _)
Advance(nd, x, i, score, member) ==
    LET f == nd[x].forward[i + 1]
    IN  IF f # Nil /\ Before(nd[f], score, member)
        THEN Advance(nd, f, i, score, member)
        ELSE x

EmptyUpdate == [i \in 0..(maxLevel - 1) |-> Nil]

\* The outer loop: for i := ss.level - 1; i >= 0; i-- { ...; update[i] = x }
RECURSIVE Search(_, _, _, _, _, _)
Search(nd, x, i, score, member, update) ==
    IF i < 0 THEN update
    ELSE LET y == Advance(nd, x, i, score, member)
         IN  Search(nd, y, i - 1, score, member, [update EXCEPT ![i] = y])

\* ------------------------------------------------------------- insertNode
\* for i := ss.level; i < level; i++ { update[i] = ss.header }
RaiseUpdate(update, from, to) ==
    [i \in DOMAIN update |-> IF i >= from /\ i < to THEN Header ELSE update[i]]

\* for i := 0; i < level; i++ { newNode.forward[i] = update[i].forward[i];
\*                              update[i].forward[i] = newNode }
RECURSIVE LinkLoop(_, _, _, _, _)
LinkLoop(nd, update, id, i, lvl) ==
    IF i >= lvl THEN nd
    ELSE LET p  == update[i]
             n1 == [nd EXCEPT ![id].forward[i + 1] = nd[p].forward[i + 1]]
             n2 == [n1 EXCEPT ![p].forward[i + 1] = id]
         IN  LinkLoop(n2, update, id, i + 1, lvl)

\* rl is the level randomLevel drew for this insertion.
insertNode(ss, score, member, rl) ==
    LET update0 == Search(ss.node, Header, ss.level - 1, score, member, EmptyUpdate)
        update  == IF rl > ss.level THEN RaiseUpdate(update0, ss.level, rl) ELSE update0
        lvl     == IF rl > ss.level THEN rl ELSE ss.level
        id      == Alloc(ss, member)
        nd0     == [ss.node EXCEPT ![id] = newSkipListNode(rl, score, member)]
    IN  [dict   |-> [ss.dict EXCEPT ![member] = id],
         node   |-> LinkLoop(nd0, update, id, 0, rl),
         level  |-> lvl,
         length |-> ss.length + 1]

\* ------------------------------------------------------------- deleteNode
\* Mutant of UnlinkLoop: the node is unlinked from level 0 only.
UnlinkLoop_Level0Only(nd, update, n, i, lvl) ==
    LET p == update[0]
    IN  IF nd[p].forward[1] = n
        THEN [nd EXCEPT ![p].forward[1] = nd[n].forward[1]]
        ELSE nd

\* for i := 0; i < ss.level; i++ { if update[i].forward[i] == node { ... } }
RECURSIVE UnlinkLoop(_, _, _, _, _)
UnlinkLoop(nd, update, n, i, lvl) ==
    IF i >= lvl THEN nd
    ELSE LET p == update[i]
         IN  IF nd[p].forward[i + 1] = n
             THEN UnlinkLoop([nd EXCEPT ![p].forward[i + 1] = nd[n].forward[i + 1]],
                             update, n, i + 1, lvl)
             ELSE UnlinkLoop(nd, update, n, i + 1, lvl)

\* Mutant of ShrinkLevel: the level is never lowered.
ShrinkLevel_Never(nd, lvl) ==
    lvl

\* for ss.level > 1 && ss.header.forward[ss.level-1] == nil { ss.level-- }
RECURSIVE ShrinkLevel(_, _)
ShrinkLevel(nd, lvl) ==
    IF lvl > 1 /\ nd[Header].forward[(lvl - 1) + 1] = Nil
    THEN ShrinkLevel(nd, lvl - 1)
    ELSE lvl

\* Mutant of deleteNode: ss.length-- is left out.
deleteNode_NoLength(ss, n) ==
    LET update == Search(ss.node, Header, ss.level - 1,
                         ss.node[n].score, ss.node[n].member, EmptyUpdate)
        nd     == UnlinkLoop(ss.node, update, n, 0, ss.level)
    IN  [dict   |-> [ss.dict EXCEPT ![ss.node[n].member] = Nil],
         node   |-> nd,
         level  |-> ShrinkLevel(nd, ss.level),
         length |-> ss.length]

deleteNode(ss, n) ==
    LET update == Search(ss.node, Header, ss.level - 1,
                         ss.node[n].score, ss.node[n].member, EmptyUpdate)
        nd     == UnlinkLoop(ss.node, update, n, 0, ss.level)
    IN  [dict   |-> [ss.dict EXCEPT ![ss.node[n].member] = Nil],
         node   |-> nd,
         level  |-> ShrinkLevel(nd, ss.level),
         length |-> ss.length - 1]

\* ------------------------------------------------------------ ZAdd / ZRem
\* Mutant of ZAddOne: a member whose score changed is counted as added.
ZAddOne_CountsChanged(acc, member, score, rl) ==
    LET ss == acc.ss
        n  == ss.dict[member]
    IN  IF n # Nil
        THEN IF ss.node[n].score # score
             THEN [ss |-> insertNode(deleteNode(ss, n), score, member, rl),
                   added |-> acc.added + 1]
             ELSE acc
        ELSE [ss |-> insertNode(ss, score, member, rl), added |-> acc.added + 1]

\* Mutant of ZAddOne: a present member keeps its old score.
ZAddOne_KeepsScore(acc, member, score, rl) ==
    LET ss == acc.ss
        n  == ss.dict[member]
    IN  IF n # Nil
        THEN acc
        ELSE [ss |-> insertNode(ss, score, member, rl), added |-> acc.added + 1]

\* Mutant of ZAddOne: the old node is not deleted before the reinsertion.
ZAddOne_NoDelete(acc, member, score, rl) ==
    LET ss == acc.ss
        n  == ss.dict[member]
    IN  IF n # Nil
        THEN IF ss.node[n].score # score
             THEN [ss |-> insertNode(ss, score, member, rl), added |-> acc.added]
             ELSE acc
        ELSE [ss |-> insertNode(ss, score, member, rl), added |-> acc.added + 1]

\* One iteration of the range loop of ZAdd for the pair (member, score);
\* rl is the level drawn if the pair leads to an insertion.
ZAddOne(acc, member, score, rl) ==
    LET ss == acc.ss
        n  == ss.dict[member]
    IN  IF n # Nil
        THEN IF ss.node[n].score # score
             THEN [ss |-> insertNode(deleteNode(ss, n), score, member, rl),
                   added |-> acc.added]
             ELSE acc
        ELSE [ss |-> insertNode(ss, score, member, rl), added |-> acc.added + 1]

\* The range loop over the map memberScores; order is the (unspecified)
\* iteration order Go picks, lv the levels drawn.
RECURSIVE ZAddLoop(_, _, _, _, _)
ZAddLoop(acc, memberScores, order, lv, i) ==
    IF i > Len(order) THEN acc
    ELSE ZAddLoop(ZAddOne(acc, order[i], memberScores[order[i]], lv[order[i]]),
                  memberScores, order, lv, i + 1)

ZAdd(ss, memberScores, order, lv) ==
    ZAddLoop([ss |-> ss, added |-> 0], memberScores, order, lv, 1)

\* Mutant of ZRemLoop: absent members are counted as removed too.
RECURSIVE ZRemLoop_CountsAll(_, _, _)
ZRemLoop_CountsAll(acc, members, i) ==
    IF i > Len(members) THEN acc
    ELSE LET n == acc.ss.dict[members[i]]
         IN  IF n # Nil
             THEN ZRemLoop_CountsAll([ss |-> deleteNode(acc.ss, n),
                                      removed |-> acc.removed + 1], members, i + 1)
             ELSE ZRemLoop_CountsAll([acc EXCEPT !.removed = acc.removed + 1],
                                     members, i + 1)

RECURSIVE ZRemLoop(_, _, _)
ZRemLoop(acc, members, i) ==
    IF i > Len(members) THEN acc
    ELSE LET n == acc.ss.dict[members[i]]
         IN  IF n # Nil
             THEN ZRemLoop([ss |-> deleteNode(acc.ss, n), removed |-> acc.removed + 1],
                           members, i + 1)
             ELSE ZRemLoop(acc, members, i + 1)

ZRem(ss, members) == ZRemLoop([ss |-> ss, removed |-> 0], members, 1)

\* ---------------------------------------------------------------- queries
\* Each query is a method on the pointer receiver ss, as ZAdd and ZRem are:
\* it is the SortedSet the call leaves (ss) and the result it returns (ret).
ZScore(ss, member) ==
    LET n == ss.dict[member]
    IN  [ss  |-> ss,
         ret |-> IF n = Nil THEN <<0, FALSE>> ELSE <<ss.node[n].score, TRUE>>]

\* The inner loop of findNodeIndex at level i: rank counts only the nodes
\* passed while i == 0.
RECURSIVE IndexAdvance(_, _, _, _, _)
IndexAdvance(nd, x, i, n, rank) ==
    LET f == nd[x].forward[i + 1]
    IN  IF f # Nil /\ Before(nd[f], nd[n].score, nd[n].member)
        THEN IndexAdvance(nd, f, i, n, IF i = 0 THEN rank + 1 ELSE rank)
        ELSE [x |-> x, rank |-> rank]

RECURSIVE IndexSearch(_, _, _, _, _)
IndexSearch(nd, x, i, n, rank) ==
    IF i < 0 THEN [x |-> x, rank |-> rank]
    ELSE LET r == IndexAdvance(nd, x, i, n, rank)
         IN  IndexSearch(nd, r.x, i - 1, n, r.rank)

findNodeIndex(ss, n) ==
    LET r == IndexSearch(ss.node, Header, ss.level - 1, n, 0)
        f == ss.node[r.x].forward[1]
    IN  IF f # Nil /\ f = n THEN r.rank ELSE -1

ZRank(ss, member) ==
    LET n == ss.dict[member]
    IN  [ss  |-> ss,
         ret |-> IF n = Nil THEN <<0, FALSE>>
                 ELSE LET index == findNodeIndex(ss, n)
                      IN  IF index = -1 THEN <<0, FALSE>> ELSE <<index, TRUE>>]

\* Mutant of ZRevRank: the reverse rank is length - index.
ZRevRank_OffByOne(ss, member) ==
    LET n == ss.dict[member]
    IN  [ss  |-> ss,
         ret |-> IF n = Nil THEN <<0, FALSE>>
                 ELSE LET index == findNodeIndex(ss, n)
                      IN  IF index = -1 THEN <<0, FALSE>>
                          ELSE <<ss.length - index, TRUE>>]

ZRevRank(ss, member) ==
    LET n == ss.dict[member]
    IN  [ss  |-> ss,
         ret |-> IF n = Nil THEN <<0, FALSE>>
                 ELSE LET index == findNodeIndex(ss, n)
                      IN  IF index = -1 THEN <<0, FALSE>>
                          ELSE <<ss.length - index - 1, TRUE>>]

ZCard(ss) == [ss |-> ss, ret |-> ss.length]

\* Mutant of adjustRangeIndices: a negative start is clamped to 0 at once.
adjustRangeIndices_NoNegativeStart(start, stop, len) ==
    LET e1 == IF stop < 0 THEN len + stop ELSE stop
        s2 == IF start < 0 THEN 0 ELSE start
        e2 == IF e1 >= len THEN len - 1 ELSE e1
    IN  <<s2, e2>>

adjustRangeIndices(start, stop, len) ==
    LET s1 == IF start < 0 THEN len + start ELSE start
        e1 == IF stop < 0 THEN len + stop ELSE stop
        s2 == IF s1 < 0 THEN 0 ELSE s1
        e2 == IF e1 >= len THEN len - 1 ELSE e1
    IN  <<s2, e2>>

\* for i := 0; x != nil && i <= stop; i++ { if i >= start { append ... }; x = x.forward[0] }
RECURSIVE RangeLoop(_, _, _, _, _, _, _)
RangeLoop(nd, x, i, start, stop, withScores, result) ==
    IF x # Nil /\ i <= stop
    THEN LET r == IF i >= start
                  THEN IF withScores
                       THEN result \o <<nd[x].member, nd[x].score>>
                       ELSE Append(result, nd[x].member)
                  ELSE result
         IN  RangeLoop(nd, nd[x].forward[1], i + 1, start, stop, withScores, r)
    ELSE result

\* Mutant of ZRange: the members of the range are removed from the set as
\* they are returned, as a pop of the range would do.
ZRange_PopsRange(ss, start, stop, withScores) ==
    LET adj == adjustRangeIndices(start, stop, ss.length)
    IN  IF adj[1] > adj[2] \/ adj[1] >= ss.length THEN [ss |-> ss, ret |-> <<>>]
        ELSE [ss  |-> ZRem(ss, RangeLoop(ss.node, ss.node[Header].forward[1], 0,
                                        adj[1], adj[2], FALSE, <<>>)).ss,
              ret |-> RangeLoop(ss.node, ss.node[Header].forward[1], 0, adj[1], adj[2],
                                withScores, <<>>)]

ZRange(ss, start, stop, withScores) ==
    LET adj == adjustRangeIndices(start, stop, ss.length)
    IN  IF adj[1] > adj[2] \/ adj[1] >= ss.length THEN [ss |-> ss, ret |-> <<>>]
        ELSE [ss  |-> ss,
              ret |-> RangeLoop(ss.node, ss.node[Header].forward[1], 0, adj[1], adj[2],
                                withScores, <<>>)]

\* randomLevel: level starts at 1 and grows while the coin flip succeeds and
\* level < maxLevel; the draws explored are those up to MaxDrawLevel.
randomLevel == {l \in 1..maxLevel : l <= MaxDrawLevel}

\* ------------------------------------------------------------------- store
\* store.go: Store[T] holds store (key -> T) and expires (*T -> uint64).  A
\* value of T is a handle on a collection; NoValue is the zero T that
\* swiss.Map.Get returns for a missing key.  A *T is the address of one copy
\* of a T: expires is the sequence of its records in allocation order, the
\* index of a record standing for the address it is keyed by and val for the
\* T that address holds.
Keys == 1..MaxKey
Values == 1..MaxValue
NoValue == 0
Durations == (0 - 1)..MaxDuration

NewStore == [store |-> [k \in Keys |-> NoValue], expires |-> <<>>]

\* The Store value: the two maps.
ST == [store |-> store, expires |-> expires]

\* &Value, &val, &obj: the address of a parameter or local of the running
\* call.  It is a fresh address on every call, and the records of expires
\* keep the addresses they are keyed by alive, so it is never the key of a
\* record already there.
NewPtr(e) == Len(e) + 1

\* swiss.Map.Put and swiss.Map.Get on expires, by address.
ExpiresPut(e, ptr, val, deadline) ==
    IF ptr \in DOMAIN e
    THEN [e EXCEPT ![ptr] = [val |-> val, deadline |-> deadline]]
    ELSE Append(e, [val |-> val, deadline |-> deadline])

ExpiresGet(e, ptr) ==
    IF ptr \in DOMAIN e THEN <<e[ptr].deadline, TRUE>> ELSE <<0, FALSE>>

\* uint64(time.Now().UnixMilli()) + uint64(expDurationMs): the sum wraps
\* modulo 2^64, which is t + d whenever t + d >= 0.
Deadline(t, expDurationMs) == t + expDurationMs

\* Value.UpdateLastAccessedAt(): the handle's last-accessed time becomes t.
UpdateLastAccessedAt(acc, Value, t) == [acc EXCEPT ![Value] = t]

\* Mutant of Put: a key that is already present keeps its value.
Put_KeepsExisting(s, key, Value, expDurationMs) ==
    [store   |-> IF s.store[key] # NoValue THEN s.store
                 ELSE [s.store EXCEPT ![key] = Value],
     expires |-> IF expDurationMs > 0
                 THEN ExpiresPut(s.expires, NewPtr(s.expires), Value, expDurationMs)
                 ELSE s.expires]

\* s.store.Put(key, Value); if expDurationMs > 0 { s.expires.Put(&Value, uint64(expDurationMs)) }
Put(s, key, Value, expDurationMs) ==
    [store   |-> [s.store EXCEPT ![key] = Value],
     expires |-> IF expDurationMs > 0
                 THEN ExpiresPut(s.expires, NewPtr(s.expires), Value, expDurationMs)
                 ELSE s.expires]

\* value, exists := s.store.Get(key); return value, exists
Get(s, key) == <<s.store[key], s.store[key] # NoValue>>

\* Mutant of Delete: the key is reported as deleted but stays in the map.
Delete_KeepsEntry(s, key) ==
    [s |-> s, existed |-> s.store[key] # NoValue]

\* The store after Delete and its result.
Delete(s, key) ==
    IF s.store[key] # NoValue
    THEN [s |-> [s EXCEPT !.store[key] = NoValue], existed |-> TRUE]
    ELSE [s |-> s, existed |-> FALSE]

\* if val, exists := s.store.Get(key); exists { return s.expires.Get(&val) }; return 0, false
GetExpiry(s, key) ==
    IF s.store[key] # NoValue
    THEN ExpiresGet(s.expires, NewPtr(s.expires))
    ELSE <<0, FALSE>>

\* Mutant of SetExpiry: the deadline is recorded whether or not the key exists.
SetExpiry_NoExistsCheck(s, key, expDurationMs, t) ==
    [s EXCEPT !.expires = ExpiresPut(s.expires, NewPtr(s.expires), s.store[key],
                                      Deadline(t, expDurationMs))]

\* obj, exists := s.store.Get(key); if exists { s.expires.Put(&obj, now + expDurationMs) }
SetExpiry(s, key, expDurationMs, t) ==
    IF s.store[key] # NoValue
    THEN [s EXCEPT !.expires = ExpiresPut(s.expires, NewPtr(s.expires), s.store[key],
                                          Deadline(t, expDurationMs))]
    ELSE s

\* ------------------------------------------------------------- evaluators
\* The command evaluators over one Store.  A stored value is the address of
\* a collection instance and heap[id] is the instance at address id.  The
\* arguments of a command are strings: the token n > 0 stands for the
\* decimal string of n, BadToken for a string no numeric parser accepts.
\* Scores are finite (no "NaN", no "Inf" token).
EvalKeys == 1..MaxEvalKey
Evaluators == 1..MaxEvaluators
EvalMembers == 1..MaxEvalMember
ObjIds == Values
BadToken == 0
Tokens == (EvalMembers \cup Scores) \cup {BadToken}
Options == {"NX", "XX", "CH", "INCR", "GT", "LT"}
defaultExpiry == -1
NoErr == ""

\* ------------------------------------------------------------------ List
\* A List is a doubly linked list on the Go heap: size, head, tail, and at
\* every address of ListNodeIds a ListNode (element, next, prev).  A pointer
\* is an address or Nil.  An address no pointer of the list leads to is
\* garbage and holds FreeListNode.
ListNodeIds == 1..MaxListNodes
Elements == 1..MaxElement
ListIdx == (0 - (MaxListNodes + 1))..(MaxListNodes + 1)
FreeListNode == [element |-> 0, next |-> Nil, prev |-> Nil]

NewLists ==
    [size |-> 0, head |-> Nil, tail |-> Nil,
     node |-> [n \in ListNodeIds |-> FreeListNode]]

\* The addresses the pointers of the list lead to, from head and tail.
RECURSIVE ListClosure(_, _)
ListClosure(b, s) ==
    LET t == s \cup (({b.node[n].next : n \in s} \cup {b.node[n].prev : n \in s}) \ {Nil})
    IN  IF t = s THEN s ELSE ListClosure(b, t)

ListReach(b) == ListClosure(b, {b.head, b.tail} \ {Nil})

\* The garbage collector: a node no pointer leads to is gone.
ListCollect(b) ==
    [b EXCEPT !.node = [n \in ListNodeIds |->
                           IF n \in ListReach(b) THEN b.node[n] ELSE FreeListNode]]

\* newNode allocates a node for el at a free address; prev and next are nil.
newNode(b, el) ==
    LET free == ListNodeIds \ ListReach(b)
        bn   == CHOOSE n \in free : \A m \in free : n <= m
    IN  [b  |-> [b EXCEPT !.node[bn] = [element |-> el, next |-> Nil, prev |-> Nil]],
         bn |-> bn]

\* append links bn after the tail.
append(b, bn) ==
    LET n1 == [b.node EXCEPT ![bn].prev = b.tail]
        n2 == IF b.tail # Nil THEN [n1 EXCEPT ![b.tail].next = bn] ELSE n1
    IN  [size |-> b.size + 1,
         head |-> IF b.head = Nil THEN bn ELSE b.head,
         tail |-> bn,
         node |-> n2]

\* prepend links bn before the head.
prepend(b, bn) ==
    LET n1 == [b.node EXCEPT ![bn].next = b.head]
        n2 == IF b.head # Nil THEN [n1 EXCEPT ![b.head].prev = bn] ELSE n1
    IN  [size |-> b.size + 1,
         head |-> bn,
         tail |-> IF b.tail = Nil THEN bn ELSE b.tail,
         node |-> n2]

\* Mutant of delete: the successor's prev pointer is left as it was.
delete_KeepsPrev(b, bn) ==
    LET n0 == b.node
        n1 == IF n0[bn].prev # Nil THEN [n0 EXCEPT ![n0[bn].prev].next = n0[bn].next]
              ELSE n0
    IN  [size |-> b.size - 1,
         head |-> IF bn = b.head THEN n0[bn].next ELSE b.head,
         tail |-> IF bn = b.tail THEN n0[bn].prev ELSE b.tail,
         node |-> n1]

\* delete unlinks bn; bn keeps its own pointers.
delete(b, bn) ==
    LET n0 == b.node
        n1 == IF n0[bn].prev # Nil THEN [n0 EXCEPT ![n0[bn].prev].next = n0[bn].next]
              ELSE n0
        n2 == IF n1[bn].next # Nil THEN [n1 EXCEPT ![n1[bn].next].prev = n1[bn].prev]
              ELSE n1
    IN  [size |-> b.size - 1,
         head |-> IF bn = b.head THEN n0[bn].next ELSE b.head,
         tail |-> IF bn = b.tail THEN n0[bn].prev ELSE b.tail,
         node |-> n2]

clear(b) == [b EXCEPT !.head = Nil, !.tail = Nil, !.size = 0]

equal(a, b) == a = b

\* List.LPush(el) and List.RPush(el), one element: LPush appends, RPush
\* prepends.
LPush(b, el) == LET n == newNode(b, el) IN append(n.b, n.bn)

RPush(b, el) == LET n == newNode(b, el) IN prepend(n.b, n.bn)

LLen(b) == b.size

\* current after k steps of current = current.next from n; Nil when a step
\* starts from nil.
RECURSIVE ListWalk(_, _, _)
ListWalk(b, n, k) ==
    IF k = 0 \/ n = Nil THEN n ELSE ListWalk(b, b.node[n].next, k - 1)

\* List.LIndex(index); fault is a nil dereference.
LIndex(b, index) ==
    LET idx     == IF index < 0 THEN b.size + index ELSE index
        current == ListWalk(b, b.head, idx)
    IN  IF idx < 0 \/ idx >= b.size
        THEN [el |-> 0, err |-> "index out of range", fault |-> FALSE]
        ELSE IF current = Nil THEN [el |-> 0, err |-> NoErr, fault |-> TRUE]
        ELSE [el |-> b.node[current].element, err |-> NoErr, fault |-> FALSE]

\* List.LPop(): the head's element and whether size is now 0.  Without a
\* head, b.head.element dereferences nil.
LPop(b) ==
    IF b.head = Nil THEN [el |-> 0, b |-> b, empty |-> FALSE, fault |-> TRUE]
    ELSE LET d == delete(b, b.head)
         IN  [el |-> b.node[b.head].element, b |-> ListCollect(d), empty |-> d.size = 0,
              fault |-> FALSE]

\* List.RPop(): the same at the tail.
RPop(b) ==
    IF b.tail = Nil THEN [el |-> 0, b |-> b, empty |-> FALSE, fault |-> TRUE]
    ELSE LET d == delete(b, b.tail)
         IN  [el |-> b.node[b.tail].element, b |-> ListCollect(d), empty |-> d.size = 0,
              fault |-> FALSE]

\* List.LSet(index, el).
LSet(b, index, el) ==
    LET current == ListWalk(b, b.head, index)
    IN  IF index < 0 \/ index >= b.size
        THEN [b |-> b, err |-> "index out of range", fault |-> FALSE]
        ELSE IF current = Nil THEN [b |-> b, err |-> NoErr, fault |-> TRUE]
        ELSE [b |-> [b EXCEPT !.node[current].element = el], err |-> NoErr,
              fault |-> FALSE]

\* The loop of LTrim that gathers the elements at the indices start..stop,
\* walking from current at index i.
RECURSIVE TrimGather(_, _, _, _, _, _)
TrimGather(b, current, i, start, stop, els) ==
    IF i > stop THEN [els |-> els, fault |-> FALSE]
    ELSE IF current = Nil THEN [els |-> els, fault |-> TRUE]
    ELSE TrimGather(b, b.node[current].next, i + 1, start, stop,
                    IF i >= start THEN Append(els, b.node[current].element) ELSE els)

\* The loop of LTrim that appends a new node for each element of els.
RECURSIVE TrimRebuild(_, _, _)
TrimRebuild(b, els, i) ==
    IF i > Len(els) THEN b
    ELSE LET n == newNode(b, els[i]) IN TrimRebuild(append(n.b, n.bn), els, i + 1)

\* List.LTrim(start, stop).
LTrim(b, start, stop) ==
    LET stp == IF stop >= b.size THEN b.size - 1 ELSE stop
        g   == TrimGather(b, b.head, 0, start, stp, <<>>)
    IN  IF start < 0 \/ stop < 0 \/ start > stop
        THEN [b |-> b, err |-> "invalid range", fault |-> FALSE]
        ELSE IF g.fault THEN [b |-> b, err |-> NoErr, fault |-> TRUE]
        ELSE [b |-> ListCollect(TrimRebuild(ListCollect(clear(b)), g.els, 1)),
              err |-> NoErr, fault |-> FALSE]

\* The loop of LRem: i < int(b.size) is tested against the size as it is at
\* each iteration, so every removal also shortens the scan.
RECURSIVE LRemLoop(_, _, _, _, _, _)
LRemLoop(b, count, el, current, i, removed) ==
    IF ~(i < b.size) THEN [b |-> b, removed |-> removed, fault |-> FALSE]
    ELSE IF current = Nil THEN [b |-> b, removed |-> removed, fault |-> TRUE]
    ELSE IF equal(b.node[current].element, el)
    THEN LET d == delete(b, current)
         IN  IF removed + 1 = count
             THEN [b |-> d, removed |-> removed + 1, fault |-> FALSE]
             ELSE LRemLoop(d, count, el, d.node[current].next, i + 1, removed + 1)
    ELSE LRemLoop(b, count, el, b.node[current].next, i + 1, removed)

\* List.LRem(count, el).
LRem(b, count, el) ==
    LET l == LRemLoop(b, count, el, b.head, 0, 0)
    IN  [b |-> ListCollect(l.b), removed |-> l.removed, fault |-> l.fault]

\* The elements met from the head through next, and from the tail through
\* prev, at most k of them (a walk through a cycle stops there).
RECURSIVE ForwardFrom(_, _, _)
ForwardFrom(b, n, k) ==
    IF n = Nil \/ k = 0 THEN <<>>
    ELSE <<b.node[n].element>> \o ForwardFrom(b, b.node[n].next, k - 1)

RECURSIVE BackwardFrom(_, _, _)
BackwardFrom(b, n, k) ==
    IF n = Nil \/ k = 0 THEN <<>>
    ELSE <<b.node[n].element>> \o BackwardFrom(b, b.node[n].prev, k - 1)

Forward(b) == ForwardFrom(b, b.head, MaxListNodes + 1)
Backward(b) == BackwardFrom(b, b.tail, MaxListNodes + 1)

\* ------------------------------------------------------------------- Set
\* A string handed to NewSet: the decimal string of the integer val (kind
\* "int"), the decimal string with one fractional digit of val tenths (kind
\* "float"), or a word no numeric parser accepts (kind "text").
IntString(v) == [kind |-> "int", val |-> v]
FloatString(v) == [kind |-> "float", val |-> v]
TextString == [kind |-> "text", val |-> 0]
SetStrings ==
    ({IntString(v) : v \in 1..MaxSetInt} \cup {IntString(MaxInt8 + 1)})
       \cup {FloatString(10 + v) : v \in 1..MaxSetFrac} \cup {TextString}

\* strconv.ParseInt(s, 10, bits); math.MinInt8 is -MaxInt8 - 1, and so on.
ParseInt(s, max) ==
    [val |-> s.val, err |-> ~(s.kind = "int" /\ s.val >= 0 - max - 1 /\ s.val <= max)]

\* strconv.ParseFloat(s, 32), in tenths.
ParseFloat32(s) ==
    [val |-> IF s.kind = "int" THEN 10 * s.val ELSE s.val, err |-> s.kind = "text"]

\* The element type NewSet picks from the first value s (the integers of the
\* model fit in 32 bits, so the int64 and unsigned branches are not taken;
\* floats are in the float32 range).
ElemType(s) ==
    IF ~ParseInt(s, MaxInt32).err
    THEN IF s.val >= 0 - MaxInt8 - 1 /\ s.val <= MaxInt8 THEN "int8"
         ELSE IF s.val >= 0 - MaxInt16 - 1 /\ s.val <= MaxInt16 THEN "int16"
         ELSE "int32"
    ELSE IF ~ParseFloat32(s).err THEN "float32"
    ELSE "string"

\* The conversion NewSet applies to each value for the element type.
ParseAs(type, s) ==
    CASE type = "int8" -> ParseInt(s, MaxInt8)
      [] type = "int16" -> ParseInt(s, MaxInt16)
      [] type = "int32" -> ParseInt(s, MaxInt32)
      [] type = "float32" -> ParseFloat32(s)
      [] OTHER -> [val |-> s, err |-> FALSE]

\* A Go map: nil, or made with a set of keys.  &Set[T]{} leaves the elements
\* map nil.
NilMap == [isNil |-> TRUE, keys |-> {}]
ZeroSet(type) == [type |-> type, elements |-> NilMap]

\* m[k] = struct{}{}: an assignment to an entry of a nil map panics.
MapAssign(m, k) ==
    IF m.isNil THEN [m |-> m, fault |-> TRUE]
    ELSE [m |-> [m EXCEPT !.keys = @ \cup {k}], fault |-> FALSE]

\* The loop of NewSet over values, from index i, for the element type of se.
RECURSIVE NewSetLoop(_, _, _)
NewSetLoop(se, values, i) ==
    IF i > Len(values) THEN [set |-> se, err |-> NoErr, fault |-> FALSE]
    ELSE LET v == ParseAs(se.type, values[i])
             a == MapAssign(se.elements, v.val)
         IN  IF v.err THEN [set |-> ZeroSet("none"), err |-> "error parsing", fault |-> FALSE]
             ELSE IF a.fault THEN [set |-> ZeroSet("none"), err |-> NoErr, fault |-> TRUE]
             ELSE NewSetLoop([se EXCEPT !.elements = a.m], values, i + 1)

\* set.NewSet(values).
NewSet(values) ==
    IF Len(values) = 0
    THEN [set |-> ZeroSet("none"), err |-> "values slice is empty", fault |-> FALSE]
    ELSE NewSetLoop(ZeroSet(ElemType(values[1])), values, 1)

\* Set.Contains and Set.Size: reading a nil map finds nothing.
Contains(s, element) == element \in s.elements.keys
Size(s) == Cardinality(s.elements.keys)

\* The frame of an evaluator that runs no command.
NoFrame == [d |-> 0, member |-> 0, obj |-> 0, exists |-> FALSE, existingScore |-> 0,
            score |-> 0]

\* An instance: its dynamic type (kind) and the fields of that type, ss for
\* a SortedSet, els for a List, data for a Hash.  A Bloom filter is opaque.
\* NoObject is an address nothing lives at.
NoObject == [kind |-> "none", ss |-> NewSortedSet, els |-> NewLists, data |-> <<>>]
NewSortedSetObj == [NoObject EXCEPT !.kind = "SortedSet"]
NewHash == [NoObject EXCEPT !.kind = "Hash"]
NewList == [NoObject EXCEPT !.kind = "List"]
NewBloomFilter == [NoObject EXCEPT !.kind = "Bloom"]

\* The Store, the instances its values point to, and the clock.  The
\* methods of Store read and write its fields store and expires.
World == [store |-> store, expires |-> expires, heap |-> heap,
          accessed |-> accessed, now |-> now]

\* The outcomes of a command: a result, an error, or a panic.
Done(w, r) == [w |-> w, ret |-> r, err |-> NoErr, fault |-> FALSE]
Failed(w, e) == [w |-> w, ret |-> 0, err |-> e, fault |-> FALSE]
Panic(w) == [w |-> w, ret |-> 0, err |-> NoErr, fault |-> TRUE]

\* e.store.Get(key): the lookup, and the touch of the value found.
EvalGet(w, key) ==
    LET g == Get(w, key)
    IN  [w |-> IF g[2]
               THEN [w EXCEPT !.accessed = UpdateLastAccessedAt(w.accessed, g[1], w.now)]
               ELSE w,
         obj |-> g[1], exists |-> g[2]]

\* e.store.Put(key, obj, defaultExpiry) for the new instance obj, which the
\* allocator placed at address id.
EvalPut(w, key, id, obj) ==
    LET s == Put(w, key, id, defaultExpiry)
    IN  [w EXCEPT !.store = s.store, !.expires = s.expires,
                  !.heap = [w.heap EXCEPT ![id] = obj],
                  !.accessed = UpdateLastAccessedAt(w.accessed, id, w.now)]

\* The address the allocator hands out next: one no key and no caller refers to.
NewObj(w, refs) ==
    CHOOSE id \in ObjIds :
       /\ id \notin (Range(w.store) \cup refs)
       /\ \A j \in ObjIds : j \notin (Range(w.store) \cup refs) => id <= j

\* The garbage collector: an instance no key and no caller refers to is gone.
Sweep(w, refs) ==
    LET live == Range(w.store) \cup refs
    IN  [w EXCEPT !.heap = [id \in ObjIds |-> IF id \in live THEN w.heap[id] ELSE NoObject],
                  !.accessed = [id \in ObjIds |-> IF id \in live THEN w.accessed[id] ELSE 0]]

\* strconv.ParseFloat, strconv.Atoi and the other numeric parsers.
ParseFloat(tok) == [val |-> tok, err |-> tok = BadToken]
convertArgToMember(tok) == [val |-> tok, err |-> tok = BadToken]
\* strconv.FormatFloat(score, 'f', -1, 64): the decimal string of score.
FormatFloat(score) == score

\* ------------------------------------------------- sorted-set evaluator
getSortedSet(w, key) ==
    LET g == EvalGet(w, key)
    IN  IF ~g.exists THEN [w |-> g.w, obj |-> NoValue, err |-> "no such key"]
        ELSE IF g.w.heap[g.obj].kind # "SortedSet"
        THEN [w |-> g.w, obj |-> NoValue, err |-> "wrong type"]
        ELSE [w |-> g.w, obj |-> g.obj, err |-> NoErr]

getOrCreateSortedSet(w, key, id) ==
    LET g == EvalGet(w, key)
    IN  IF ~g.exists
        THEN [w |-> EvalPut(g.w, key, id, NewSortedSetObj), obj |-> id, err |-> NoErr]
        ELSE IF g.w.heap[g.obj].kind # "SortedSet"
        THEN [w |-> g.w, obj |-> NoValue, err |-> "wrong type"]
        ELSE [w |-> g.w, obj |-> g.obj, err |-> NoErr]

\* Whether the options make ZADD skip the pair (score, member).
Skips(opts, score, existingScore, exists) ==
    \/ "NX" \in opts /\ exists
    \/ "XX" \in opts /\ ~exists
    \/ "GT" \in opts /\ exists /\ score <= existingScore
    \/ "LT" \in opts /\ exists /\ score >= existingScore

\* The score ZADD hands to ZAdd: with INCR, the sum with the existing score.
Incremented(opts, score, existingScore, exists) ==
    IF "INCR" \in opts
    THEN score + (IF exists THEN existingScore ELSE 0)
    ELSE score

\* ss.ZAdd(map[T]float64{member: score}); rl is the level drawn if it inserts.
ZAddPair(ss, member, score, rl) ==
    ZAdd(ss, [m \in {member} |-> score], <<member>>, [m \in {member} |-> rl])

\* The loop of ZADD over the score-member pairs rest[i], rest[i + 1] on the
\* SortedSet at address ss; lv are the levels drawn, one for each pair.
RECURSIVE ZADDLoop(_, _, _, _, _, _)
ZADDLoop(acc, ss, opts, rest, lv, i) ==
    IF i > Len(rest) THEN acc
    ELSE IF i + 1 > Len(rest) THEN [acc EXCEPT !.fault = TRUE]
    ELSE LET parsed == ParseFloat(rest[i])
             member == convertArgToMember(rest[i + 1])
             zs     == ZScore(acc.w.heap[ss].ss, member.val).ret
             score  == Incremented(opts, parsed.val, zs[1], zs[2])
             res    == ZAddPair(acc.w.heap[ss].ss, member.val, score, lv[(i + 1) \div 2])
         IN  IF parsed.err THEN [acc EXCEPT !.err = "invalid score"]
             ELSE IF member.err THEN [acc EXCEPT !.err = "invalid member"]
             ELSE IF Skips(opts, parsed.val, zs[1], zs[2])
             THEN ZADDLoop([acc EXCEPT !.score = parsed.val], ss, opts, rest, lv, i + 2)
             ELSE ZADDLoop([acc EXCEPT !.w.heap[ss].ss = Collect(res.ss),
                                       !.added = IF res.added > 0 THEN @ + res.added ELSE @,
                                       !.changed = IF res.added > 0 THEN @ ELSE @ + 1,
                                       !.score = score],
                           ss, opts, rest, lv, i + 2)

\* ZADD key [options] score member ...; the argument list is the key, one
\* string for each option of opts, then rest.  id is the address a new
\* SortedSet gets.  With INCR the result is score as line 173 reads it, the
\* variable of the loop body taken at function scope: the score parsed
\* last, plus the existing score when that pair was applied.
ZADD(w, key, opts, rest, lv, id) ==
    IF 1 + Cardinality(opts) + Len(rest) < 3 THEN Failed(w, "wrong number of arguments")
    ELSE IF Len(rest) < 2 THEN Failed(w, "syntax error")
    ELSE IF Len(rest) % 2 # 0 /\ "INCR" \notin opts THEN Failed(w, "syntax error")
    ELSE LET g == getOrCreateSortedSet(w, key, id)
             l == ZADDLoop([w |-> g.w, added |-> 0, changed |-> 0, score |-> 0,
                            err |-> NoErr, fault |-> FALSE],
                           g.obj, opts, rest, lv, 1)
         IN  IF g.err # NoErr THEN Failed(g.w, g.err)
             ELSE IF l.fault THEN Panic(l.w)
             ELSE IF l.err # NoErr THEN Failed(l.w, l.err)
             ELSE IF "INCR" \in opts
             THEN IF l.added + l.changed # 1
                  THEN Failed(l.w, "INCR option supports a single increment-element pair")
                  ELSE Done(l.w, l.score)
             ELSE IF "CH" \in opts THEN Done(l.w, l.added + l.changed)
             ELSE Done(l.w, l.added)

\* ZSCORE key member.
ZSCORE(w, key, memberStr) ==
    LET g      == getSortedSet(w, key)
        member == convertArgToMember(memberStr)
        zs     == ZScore(g.w.heap[g.obj].ss, member.val).ret
    IN  IF g.err # NoErr THEN Failed(g.w, g.err)
        ELSE IF member.err THEN Failed(g.w, "invalid member")
        ELSE IF ~zs[2] THEN Done(g.w, 0)
        ELSE Done(g.w, FormatFloat(zs[1]))

\* The loop of ZREM that converts memberStrs, from index i.
RECURSIVE ZREMConvert(_, _)
ZREMConvert(memberStrs, i) ==
    IF i > Len(memberStrs) THEN [members |-> <<>>, err |-> FALSE]
    ELSE LET member == convertArgToMember(memberStrs[i])
             rest   == ZREMConvert(memberStrs, i + 1)
         IN  IF member.err THEN [members |-> <<>>, err |-> TRUE]
             ELSE [members |-> <<member.val>> \o rest.members, err |-> rest.err]

\* ZREM key member ...
ZREM(w, key, memberStrs) ==
    IF 1 + Len(memberStrs) < 2 THEN Failed(w, "wrong number of arguments")
    ELSE LET g == getSortedSet(w, key)
             c == ZREMConvert(memberStrs, 1)
             r == ZRem(g.w.heap[g.obj].ss, c.members)
         IN  IF g.err # NoErr THEN Failed(g.w, g.err)
             ELSE IF c.err THEN Failed(g.w, "invalid member")
             ELSE Done([g.w EXCEPT !.heap[g.obj].ss = Collect(r.ss)], r.removed)

\* SortedSet.ZIncrBy(member, increment): a missing member counts as score 0,
\* then as ZAdd; the new score.
ZIncrBy(ss, member, increment, rl) ==
    LET zs       == ZScore(ss, member).ret
        newScore == (IF zs[2] THEN zs[1] ELSE 0) + increment
    IN  [ss |-> ZAddPair(ss, member, newScore, rl).ss, newScore |-> newScore]

\* ZINCRBY key increment member.
ZINCRBY(w, key, incrementStr, memberStr, rl, id) ==
    LET increment == ParseFloat(incrementStr)
        member    == convertArgToMember(memberStr)
        g         == getOrCreateSortedSet(w, key, id)
        r         == ZIncrBy(g.w.heap[g.obj].ss, member.val, increment.val, rl)
    IN  IF increment.err THEN Failed(w, "invalid increment")
        ELSE IF member.err THEN Failed(w, "invalid member")
        ELSE IF g.err # NoErr THEN Failed(g.w, g.err)
        ELSE Done([g.w EXCEPT !.heap[g.obj].ss = Collect(r.ss)], FormatFloat(r.newScore))

\* -------------------------------------------------------- hash evaluator
getHash(w, key) ==
    LET g == EvalGet(w, key)
    IN  IF ~g.exists THEN [w |-> g.w, obj |-> NoValue, err |-> "no such key"]
        ELSE IF g.w.heap[g.obj].kind # "Hash"
        THEN [w |-> g.w, obj |-> NoValue, err |-> "wrong type"]
        ELSE [w |-> g.w, obj |-> g.obj, err |-> NoErr]

getOrCreateHash(w, key, id) ==
    LET g == EvalGet(w, key)
    IN  IF ~g.exists
        THEN [w |-> EvalPut(g.w, key, id, NewHash), obj |-> id, err |-> NoErr]
        ELSE IF g.w.heap[g.obj].kind # "Hash"
        THEN [w |-> g.w, obj |-> NoValue, err |-> "wrong type"]
        ELSE [w |-> g.w, obj |-> g.obj, err |-> NoErr]

\* The Hash of the model has int64 fields and int64 values.
convertArgToKey(tok) == [val |-> tok, err |-> tok = BadToken]
convertArgToValue(tok) == [val |-> tok, err |-> tok = BadToken]

\* Hash.HSet on the map data: 1 if the field is new.
HSet(data, field, value) ==
    [data |-> [f \in DOMAIN data \cup {field} |-> IF f = field THEN value ELSE data[f]],
     res  |-> IF field \in DOMAIN data THEN 0 ELSE 1]

HGet(data, field) ==
    IF field \in DOMAIN data THEN <<data[field], TRUE>> ELSE <<0, FALSE>>

\* The loop of HSET over the field-value pairs of fieldsAndValues.
RECURSIVE HSETLoop(_, _, _, _)
HSETLoop(acc, hash, fieldsAndValues, i) ==
    IF i > Len(fieldsAndValues) THEN acc
    ELSE LET field == convertArgToKey(fieldsAndValues[i])
             value == convertArgToValue(fieldsAndValues[i + 1])
             res   == HSet(acc.w.heap[hash].data, field.val, value.val)
         IN  IF field.err THEN [acc EXCEPT !.err = "invalid field"]
             ELSE IF value.err THEN [acc EXCEPT !.err = "invalid value"]
             ELSE HSETLoop([acc EXCEPT !.w.heap[hash].data = res.data,
                                       !.added = @ + res.res],
                           hash, fieldsAndValues, i + 2)

\* HSET key field value ...
HSET(w, key, fieldsAndValues, id) ==
    IF 1 + Len(fieldsAndValues) < 3 \/ (1 + Len(fieldsAndValues)) % 2 # 1
    THEN Failed(w, "wrong number of arguments")
    ELSE LET g == getOrCreateHash(w, key, id)
             l == HSETLoop([w |-> g.w, added |-> 0, err |-> NoErr], g.obj, fieldsAndValues, 1)
         IN  IF g.err # NoErr THEN Failed(g.w, g.err)
             ELSE IF l.err # NoErr THEN Failed(l.w, l.err)
             ELSE Done(l.w, l.added)

\* HGET key field; the zero value 0 when the field is not there.
HGET(w, key, fieldStr) ==
    LET field == convertArgToKey(fieldStr)
        g     == getHash(w, key)
        v     == HGet(g.w.heap[g.obj].data, field.val)
    IN  IF field.err THEN Failed(w, "invalid field")
        ELSE IF g.err # NoErr THEN Failed(g.w, g.err)
        ELSE IF ~v[2] THEN Done(g.w, 0)
        ELSE Done(g.w, v[1])

\* Hash.HDel(fields...), from index i: the fields deleted are counted.
RECURSIVE HDel(_, _, _)
HDel(data, fields, i) ==
    IF i > Len(fields) THEN [data |-> data, deleted |-> 0]
    ELSE IF fields[i] \in DOMAIN data
    THEN LET r == HDel([f \in DOMAIN data \ {fields[i]} |-> data[f]], fields, i + 1)
         IN  [r EXCEPT !.deleted = @ + 1]
    ELSE HDel(data, fields, i + 1)

\* The loop of HDEL that converts fieldStrs, from index i.
RECURSIVE HDELConvert(_, _)
HDELConvert(fieldStrs, i) ==
    IF i > Len(fieldStrs) THEN [fields |-> <<>>, err |-> FALSE]
    ELSE LET field == convertArgToKey(fieldStrs[i])
             rest  == HDELConvert(fieldStrs, i + 1)
         IN  IF field.err THEN [fields |-> <<>>, err |-> TRUE]
             ELSE [fields |-> <<field.val>> \o rest.fields, err |-> rest.err]

\* HDEL key field ...
HDEL(w, key, fieldStrs) ==
    IF 1 + Len(fieldStrs) < 2 THEN Failed(w, "wrong number of arguments")
    ELSE LET g == getHash(w, key)
             c == HDELConvert(fieldStrs, 1)
             r == HDel(g.w.heap[g.obj].data, c.fields, 1)
         IN  IF g.err # NoErr THEN Failed(g.w, g.err)
             ELSE IF c.err THEN Failed(g.w, "invalid field")
             ELSE Done([g.w EXCEPT !.heap[g.obj].data = r.data], r.deleted)

\* Hash.HIncrBy(field, increment) on a Hash whose values are int64: the
\* value found (0 for a new field) plus increment is stored and returned.
HIncrBy(data, field, increment) ==
    LET current == (IF field \in DOMAIN data THEN data[field] ELSE 0) + increment
    IN  [data |-> HSet(data, field, current).data, newValue |-> current,
         err |-> NoErr, fault |-> FALSE]

\* HINCRBY key field increment.
HINCRBY(w, key, fieldStr, incrementStr, id) ==
    LET field     == convertArgToKey(fieldStr)
        increment == convertArgToValue(incrementStr)
        g         == getOrCreateHash(w, key, id)
        r         == HIncrBy(g.w.heap[g.obj].data, field.val, increment.val)
    IN  IF field.err THEN Failed(w, "invalid field")
        ELSE IF increment.err THEN Failed(w, "invalid increment for 'HINCRBY' command")
        ELSE IF g.err # NoErr THEN Failed(g.w, g.err)
        ELSE Done([g.w EXCEPT !.heap[g.obj].data = r.data], r.newValue)

\* Hash.HIncrByFloat(field, increment) on a Hash whose values are int64: a
\* value found is neither float64 nor string, and for a new field the sum, a
\* float64, fails the type assertion to V before it is stored.
HIncrByFloat(data, field, increment) ==
    IF field \in DOMAIN data
    THEN [data |-> data, newValue |-> 0, err |-> "hash value is not a float",
          fault |-> FALSE]
    ELSE [data |-> data, newValue |-> 0, err |-> NoErr, fault |-> TRUE]

\* HINCRBYFLOAT key field increment.
HINCRBYFLOAT(w, key, fieldStr, incrementStr, id) ==
    LET field     == convertArgToKey(fieldStr)
        increment == ParseFloat(incrementStr)
        g         == getOrCreateHash(w, key, id)
        r         == HIncrByFloat(g.w.heap[g.obj].data, field.val, increment.val)
    IN  IF field.err THEN Failed(w, "invalid field")
        ELSE IF increment.err
        THEN Failed(w, "invalid increment for 'HINCRBYFLOAT' command")
        ELSE IF g.err # NoErr THEN Failed(g.w, g.err)
        ELSE IF r.fault THEN Panic(g.w)
        ELSE IF r.err # NoErr THEN Failed(g.w, r.err)
        ELSE Done([g.w EXCEPT !.heap[g.obj].data = r.data], r.newValue)

\* -------------------------------------------------------- list evaluator
getList(w, key) ==
    LET g == EvalGet(w, key)
    IN  IF ~g.exists THEN [w |-> g.w, obj |-> NoValue, err |-> "no such key"]
        ELSE IF g.w.heap[g.obj].kind # "List"
        THEN [w |-> g.w, obj |-> NoValue, err |-> "wrong type"]
        ELSE [w |-> g.w, obj |-> g.obj, err |-> NoErr]

getOrCreateList(w, key, id) ==
    LET g == EvalGet(w, key)
    IN  IF ~g.exists
        THEN [w |-> EvalPut(g.w, key, id, NewList), obj |-> id, err |-> NoErr]
        ELSE IF g.w.heap[g.obj].kind # "List"
        THEN [w |-> g.w, obj |-> NoValue, err |-> "wrong type"]
        ELSE [w |-> g.w, obj |-> g.obj, err |-> NoErr]

convertArgToType(tok) == [val |-> tok, err |-> tok = BadToken]

\* The loop of LPUSH (left) or RPUSH over valueStrs.
RECURSIVE PUSHLoop(_, _, _, _, _)
PUSHLoop(acc, obj, valueStrs, left, i) ==
    IF i > Len(valueStrs) THEN acc
    ELSE LET value == convertArgToType(valueStrs[i])
             b     == acc.w.heap[obj].els
         IN  IF value.err THEN [acc EXCEPT !.err = "invalid value"]
             ELSE PUSHLoop([acc EXCEPT !.w.heap[obj].els =
                                          IF left THEN LPush(b, value.val)
                                          ELSE RPush(b, value.val)],
                           obj, valueStrs, left, i + 1)

\* LPUSH key value ... (left) and RPUSH key value ...
PUSH(w, key, valueStrs, left, id) ==
    IF 1 + Len(valueStrs) < 2 THEN Failed(w, "wrong number of arguments")
    ELSE LET g == getOrCreateList(w, key, id)
             l == PUSHLoop([w |-> g.w, err |-> NoErr], g.obj, valueStrs, left, 1)
         IN  IF g.err # NoErr THEN Failed(g.w, g.err)
             ELSE IF l.err # NoErr THEN Failed(l.w, l.err)
             ELSE Done(l.w, LLen(l.w.heap[g.obj].els))

\* Mutant of POP: the key is kept when the list becomes empty.
POP_KeepsKey(w, key, left) ==
    LET g  == getList(w, key)
        b  == g.w.heap[g.obj].els
        p  == IF left THEN LPop(b) ELSE RPop(b)
        w1 == [g.w EXCEPT !.heap[g.obj].els = p.b]
    IN  IF g.err # NoErr THEN Failed(g.w, g.err)
        ELSE IF p.fault THEN Panic(g.w)
        ELSE Done(w1, p.el)

\* LPOP key (left) and RPOP key.
POP(w, key, left) ==
    LET g  == getList(w, key)
        b  == g.w.heap[g.obj].els
        p  == IF left THEN LPop(b) ELSE RPop(b)
        w1 == [g.w EXCEPT !.heap[g.obj].els = p.b]
    IN  IF g.err # NoErr THEN Failed(g.w, g.err)
        ELSE IF p.fault THEN Panic(g.w)
        ELSE IF p.empty THEN Done(Delete(w1, key).s, p.el)
        ELSE Done(w1, p.el)

\* An index or count argument: the decimal string of the integer i, or a
\* string strconv.Atoi rejects.
IntStr(i) == [val |-> i, ok |-> TRUE]
BadIntStr == [val |-> 0, ok |-> FALSE]
Atoi(str) == [val |-> str.val, err |-> ~str.ok]

\* LSET key index value.
LSET(w, key, indexStr, valueStr) ==
    LET index == Atoi(indexStr)
        value == convertArgToType(valueStr)
        g     == getList(w, key)
        r     == LSet(g.w.heap[g.obj].els, index.val, value.val)
    IN  IF index.err THEN Failed(w, "invalid index for 'LSET' command")
        ELSE IF value.err THEN Failed(w, "invalid value")
        ELSE IF g.err # NoErr THEN Failed(g.w, g.err)
        ELSE IF r.fault THEN Panic(g.w)
        ELSE IF r.err # NoErr THEN Failed(g.w, r.err)
        ELSE Done([g.w EXCEPT !.heap[g.obj].els = r.b], "OK")

\* LTRIM key start stop.
LTRIM(w, key, startStr, stopStr) ==
    LET start == Atoi(startStr)
        stop  == Atoi(stopStr)
        g     == getList(w, key)
        r     == LTrim(g.w.heap[g.obj].els, start.val, stop.val)
    IN  IF start.err \/ stop.err THEN Failed(w, "invalid index for 'LTRIM' command")
        ELSE IF g.err # NoErr THEN Failed(g.w, g.err)
        ELSE IF r.fault THEN Panic(g.w)
        ELSE IF r.err # NoErr THEN Failed(g.w, r.err)
        ELSE Done([g.w EXCEPT !.heap[g.obj].els = r.b], "OK")

\* LREM key count value.
LREM(w, key, countStr, valueStr) ==
    LET count == Atoi(countStr)
        value == convertArgToType(valueStr)
        g     == getList(w, key)
        r     == LRem(g.w.heap[g.obj].els, count.val, value.val)
    IN  IF count.err THEN Failed(w, "invalid count for 'LREM' command")
        ELSE IF value.err THEN Failed(w, "invalid value")
        ELSE IF g.err # NoErr THEN Failed(g.w, g.err)
        ELSE IF r.fault THEN Panic(g.w)
        ELSE Done([g.w EXCEPT !.heap[g.obj].els = r.b], r.removed)

\* ------------------------------------------------------- bloom evaluator
\* opts is whether the caller passed options (TRUE) or nil.  The type
\* assertion obj.(*Bloom) has no ok result: it panics on another type.
getOrCreateBloomFilter(w, key, opts, id) ==
    LET g   == EvalGet(w, key)
        w1  == IF ~g.exists /\ opts THEN EvalPut(g.w, key, id, NewBloomFilter) ELSE g.w
        obj == IF ~g.exists /\ opts THEN id ELSE g.obj
    IN  IF ~g.exists /\ ~opts
        THEN [w |-> w1, obj |-> NoValue, err |-> "invalid key: no bloom filter found",
              fault |-> FALSE]
        ELSE IF w1.heap[obj].kind # "Bloom"
        THEN [w |-> w1, obj |-> NoValue, err |-> NoErr, fault |-> TRUE]
        ELSE [w |-> w1, obj |-> obj, err |-> NoErr, fault |-> FALSE]

\* BF.INIT key, with the default options.
BFINIT(w, key, id) ==
    LET g == getOrCreateBloomFilter(w, key, TRUE, id)
    IN  IF g.fault THEN Panic(g.w)
        ELSE IF g.err # NoErr THEN Failed(g.w, g.err)
        ELSE Done(g.w, 1)

\* BF.INFO key.
BFINFO(w, key) ==
    LET g == getOrCreateBloomFilter(w, key, FALSE, NoValue)
    IN  IF g.fault THEN Panic(g.w)
        ELSE IF g.err # NoErr THEN Failed(g.w, g.err)
        ELSE Done(g.w, 1)

\* BFADD key value, with the options NewBloomOpts returns.  The bits of a
\* filter are not modelled; resp is what Bloom.Add answers.
BFADD(w, key, resp, id) ==
    LET g == getOrCreateBloomFilter(w, key, TRUE, id)
    IN  IF g.fault THEN Panic(g.w)
        ELSE IF g.err # NoErr THEN Failed(g.w, g.err)
        ELSE Done(g.w, resp)

\* No instance yet, and no evaluator is running.
EvalInit ==
    /\ heap = [id \in ObjIds |-> NoObject]
    /\ epc = [g \in Evaluators |-> "idle"]
    /\ frame = [g \in Evaluators |-> NoFrame]

\* ------------------------------------------------- sequential specification
\* One caller at a time: a call runs to completion (op, args, ret record the
\* call, pre the SortedSet before it), then the caller takes the result.
Procs == 1..(MaxReaders + MaxWriters)
ReaderProcs == 1..MaxReaders
WriterProcs == (MaxReaders + 1)..(MaxReaders + MaxWriters)

\* A goroutine's frame: the method it runs (kind), its arguments and locals,
\* what it read (seen), and whether it read while a score-changing ZAdd was
\* between its deleteNode and its insertNode (torn).
NoLocal == [kind |-> "none", member |-> 0, score |-> 0, rl |-> 0, n |-> Nil,
            index |-> 0, seen |-> <<>>, torn |-> FALSE]

LockInit ==
    /\ pc = [p \in Procs |-> "idle"]
    /\ held = [p \in Procs |-> 0]
    /\ writer = 0
    /\ pending = {}
    /\ local = [p \in Procs |-> NoLocal]

\* NewStore: two empty maps.  The clock is the wall clock in milliseconds,
\* which is positive.
StoreInit ==
    /\ store = NewStore.store
    /\ expires = NewStore.expires
    /\ now = 1
    /\ accessed = [v \in Values |-> 0]
    /\ lastPut = [k \in Keys |-> NoValue]
    /\ expKeys = <<>>

Init ==
    /\ dict = NewSortedSet.dict
    /\ node = NewSortedSet.node
    /\ level = NewSortedSet.level
    /\ length = NewSortedSet.length
    /\ op = "none"
    /\ args = <<>>
    /\ ret = <<>>
    /\ pre = <<>>
    /\ LockInit
    /\ twin = NewSortedSet
    /\ StoreInit
    /\ EvalInit
    /\ list = NewLists
    /\ since = [ss |-> NewSortedSet, asked |-> {}]

Install(ss) ==
    LET post == Collect(ss)
    IN  /\ dict' = post.dict
        /\ node' = post.node
        /\ level' = post.level
        /\ length' = post.length

Called(o, a, r) ==
    /\ op' = o
    /\ args' = a
    /\ ret' = r
    /\ pre' = SS

CallZAdd ==
    /\ op = "none"
    /\ \E dom \in SUBSET Members :
          /\ Cardinality(dom) <= MaxBatch
          /\ \E memberScores \in [dom -> Scores], order \in Perms(dom),
                lv \in [dom -> randomLevel] :
                LET r == ZAdd(SS, memberScores, order, lv)
                IN  /\ Install(r.ss)
                    /\ Called("ZAdd", memberScores, r.added)
    /\ UNCHANGED <<lockVars, outsideSS>>

CallZRem ==
    /\ op = "none"
    /\ \E k \in 1..MaxBatch :
          \E members \in [1..k -> Members] :
             LET r == ZRem(SS, members)
             IN  /\ Install(r.ss)
                 /\ Called("ZRem", members, r.removed)
    /\ UNCHANGED <<lockVars, outsideSS>>

\* A query is called as ZAdd and ZRem are: the SortedSet becomes what the
\* method leaves and ret what it returns.
CallZScore ==
    /\ op = "none"
    /\ \E member \in Members :
          LET r == ZScore(SS, member)
          IN  /\ Install(r.ss)
              /\ Called("ZScore", member, r.ret)
    /\ UNCHANGED <<lockVars, outsideSS>>

CallZRank ==
    /\ op = "none"
    /\ \E member \in Members :
          LET r == ZRank(SS, member)
          IN  /\ Install(r.ss)
              /\ Called("ZRank", member, r.ret)
    /\ UNCHANGED <<lockVars, outsideSS>>

CallZRevRank ==
    /\ op = "none"
    /\ \E member \in Members :
          LET r == ZRevRank(SS, member)
          IN  /\ Install(r.ss)
              /\ Called("ZRevRank", member, r.ret)
    /\ UNCHANGED <<lockVars, outsideSS>>

CallZRange ==
    /\ op = "none"
    /\ \E start \in RangeIdx, stop \in RangeIdx, withScores \in BOOLEAN :
          LET r == ZRange(SS, start, stop, withScores)
          IN  /\ Install(r.ss)
              /\ Called("ZRange", <<start, stop, withScores>>, r.ret)
    /\ UNCHANGED <<lockVars, outsideSS>>

CallZCard ==
    /\ op = "none"
    /\ LET r == ZCard(SS)
       IN  /\ Install(r.ss)
           /\ Called("ZCard", <<>>, r.ret)
    /\ UNCHANGED <<lockVars, outsideSS>>

\* The call returns: the caller has its result and may call again.
Return ==
    /\ op # "none"
    /\ op' = "none"
    /\ args' = <<>>
    /\ ret' = <<>>
    /\ pre' = <<>>
    /\ UNCHANGED <<ssVars, lockVars, outsideSS>>

Next ==
    \/ CallZScore
    \/ CallZRank
    \/ CallZRevRank
    \/ CallZRange
    \/ CallZCard
    \/ CallZAdd
    \/ CallZRem
    \/ Return

Spec == Init /\ [][Next]_vars

\* ----------------------------------------------------- query specification
\* The same calls on the one SortedSet, with the history of the queries:
\* since.ss is the SortedSet as construction or the latest ZAdd or ZRem left
\* it, since.asked the names of the queries called after that.
Queries == {"ZScore", "ZRank", "ZRevRank", "ZRange", "ZCard"}

outsideQuery == <<lockVars, twin, storeVars, evalVars, list>>

Asked(o) == since' = [since EXCEPT !.asked = @ \cup {o}]

QueryZAdd ==
    /\ op = "none"
    /\ \E dom \in SUBSET Members :
          /\ Cardinality(dom) <= MaxBatch
          /\ \E memberScores \in [dom -> Scores], order \in Perms(dom),
                lv \in [dom -> randomLevel] :
                LET r == ZAdd(SS, memberScores, order, lv)
                IN  /\ Install(r.ss)
                    /\ since' = [ss |-> Collect(r.ss), asked |-> {}]
                    /\ Called("ZAdd", memberScores, r.added)
    /\ UNCHANGED outsideQuery

QueryZRem ==
    /\ op = "none"
    /\ \E k \in 1..MaxBatch :
          \E members \in [1..k -> Members] :
             LET r == ZRem(SS, members)
             IN  /\ Install(r.ss)
                 /\ since' = [ss |-> Collect(r.ss), asked |-> {}]
                 /\ Called("ZRem", members, r.removed)
    /\ UNCHANGED outsideQuery

QueryZScore ==
    /\ op = "none"
    /\ \E member \in Members :
          LET r == ZScore(SS, member)
          IN  /\ Install(r.ss)
              /\ Called("ZScore", member, r.ret)
    /\ Asked("ZScore")
    /\ UNCHANGED outsideQuery

QueryZRank ==
    /\ op = "none"
    /\ \E member \in Members :
          LET r == ZRank(SS, member)
          IN  /\ Install(r.ss)
              /\ Called("ZRank", member, r.ret)
    /\ Asked("ZRank")
    /\ UNCHANGED outsideQuery

QueryZRevRank ==
    /\ op = "none"
    /\ \E member \in Members :
          LET r == ZRevRank(SS, member)
          IN  /\ Install(r.ss)
              /\ Called("ZRevRank", member, r.ret)
    /\ Asked("ZRevRank")
    /\ UNCHANGED outsideQuery

QueryZRange ==
    /\ op = "none"
    /\ \E start \in RangeIdx, stop \in RangeIdx, withScores \in BOOLEAN :
          LET r == ZRange(SS, start, stop, withScores)
          IN  /\ Install(r.ss)
              /\ Called("ZRange", <<start, stop, withScores>>, r.ret)
    /\ Asked("ZRange")
    /\ UNCHANGED outsideQuery

QueryZCard ==
    /\ op = "none"
    /\ LET r == ZCard(SS)
       IN  /\ Install(r.ss)
           /\ Called("ZCard", <<>>, r.ret)
    /\ Asked("ZCard")
    /\ UNCHANGED outsideQuery

NextQuery ==
    \/ QueryZScore
    \/ QueryZRank
    \/ QueryZRevRank
    \/ QueryZRange
    \/ QueryZCard
    \/ QueryZAdd
    \/ QueryZRem
    \/ Return

SpecQuery == Init /\ [][NextQuery]_vars

\* ------------------------------------------------------ twin specification
\* Two SortedSets receive the same calls with the same arguments (and the
\* same iteration order of the ZAdd map); randomLevel draws independently in
\* each.  The first is dict, node, level, length; the second is twin.  ret
\* holds the pair of results.
TwinCalled(o, a, r1, r2) ==
    /\ Called(o, a, <<r1, r2>>)
    /\ UNCHANGED <<lockVars, list, since, storeVars, evalVars>>

TwinZAdd ==
    /\ op = "none"
    /\ \E dom \in SUBSET Members :
          /\ Cardinality(dom) <= MaxBatch
          /\ \E memberScores \in [dom -> Scores], order \in Perms(dom),
                lv1 \in [dom -> randomLevel], lv2 \in [dom -> randomLevel] :
                \E r1 \in {ZAdd(SS, memberScores, order, lv1)},
                   r2 \in {ZAdd(twin, memberScores, order, lv2)} :
                   /\ Install(r1.ss)
                   /\ twin' = Collect(r2.ss)
                   /\ TwinCalled("ZAdd", memberScores, r1.added, r2.added)

TwinZRem ==
    /\ op = "none"
    /\ \E k \in 1..MaxBatch :
          \E members \in [1..k -> Members] :
             \E r1 \in {ZRem(SS, members)}, r2 \in {ZRem(twin, members)} :
                /\ Install(r1.ss)
                /\ twin' = Collect(r2.ss)
                /\ TwinCalled("ZRem", members, r1.removed, r2.removed)

TwinZScore ==
    /\ op = "none"
    /\ \E member \in Members :
          LET r1 == ZScore(SS, member)
              r2 == ZScore(twin, member)
          IN  /\ Install(r1.ss)
              /\ twin' = Collect(r2.ss)
              /\ TwinCalled("ZScore", member, r1.ret, r2.ret)

TwinZRank ==
    /\ op = "none"
    /\ \E member \in Members :
          LET r1 == ZRank(SS, member)
              r2 == ZRank(twin, member)
          IN  /\ Install(r1.ss)
              /\ twin' = Collect(r2.ss)
              /\ TwinCalled("ZRank", member, r1.ret, r2.ret)

TwinZRevRank ==
    /\ op = "none"
    /\ \E member \in Members :
          LET r1 == ZRevRank(SS, member)
              r2 == ZRevRank(twin, member)
          IN  /\ Install(r1.ss)
              /\ twin' = Collect(r2.ss)
              /\ TwinCalled("ZRevRank", member, r1.ret, r2.ret)

TwinZRange ==
    /\ op = "none"
    /\ \E start \in RangeIdx, stop \in RangeIdx, withScores \in BOOLEAN :
          LET r1 == ZRange(SS, start, stop, withScores)
              r2 == ZRange(twin, start, stop, withScores)
          IN  /\ Install(r1.ss)
              /\ twin' = Collect(r2.ss)
              /\ TwinCalled("ZRange", <<start, stop, withScores>>, r1.ret, r2.ret)

TwinZCard ==
    /\ op = "none"
    /\ LET r1 == ZCard(SS)
           r2 == ZCard(twin)
       IN  /\ Install(r1.ss)
           /\ twin' = Collect(r2.ss)
           /\ TwinCalled("ZCard", <<>>, r1.ret, r2.ret)

NextTwin ==
    \/ TwinZScore
    \/ TwinZRank
    \/ TwinZRevRank
    \/ TwinZRange
    \/ TwinZCard
    \/ TwinZAdd
    \/ TwinZRem
    \/ Return

SpecTwin == Init /\ [][NextTwin]_vars

\* ------------------------------------------------------ store specification
\* One caller at a time on one Store; the wall clock advances between calls.
\* lastPut[key] is the value of the latest Put of key that no Delete of key
\* followed (NoValue if there is none), and expKeys[i] is the key whose Put
\* or SetExpiry added the i-th record of expires.  The expires map only
\* grows, so the calls that add a record are bounded by MaxExpires.
StoreInstall(s) ==
    /\ store' = s.store
    /\ expires' = s.expires

StoreCalled(o, a, r) ==
    /\ op' = o
    /\ args' = a
    /\ ret' = r
    /\ pre' = ST
    /\ UNCHANGED <<ssVars, lockVars, list, since, twin, now, evalVars>>

StorePut ==
    /\ op = "none"
    /\ \E key \in Keys, Value \in Values, expDurationMs \in Durations :
          /\ expDurationMs > 0 => Len(expires) < MaxExpires
          /\ accessed' = UpdateLastAccessedAt(accessed, Value, now)
          /\ StoreInstall(Put(ST, key, Value, expDurationMs))
          /\ lastPut' = [lastPut EXCEPT ![key] = Value]
          /\ expKeys' = IF expDurationMs > 0 THEN Append(expKeys, key) ELSE expKeys
          /\ StoreCalled("Put", <<key, Value, expDurationMs>>, <<>>)

StoreGet ==
    /\ op = "none"
    /\ \E key \in Keys :
          /\ accessed' = IF Get(ST, key)[2]
                         THEN UpdateLastAccessedAt(accessed, Get(ST, key)[1], now)
                         ELSE accessed
          /\ StoreCalled("Get", key, Get(ST, key))
    /\ UNCHANGED <<store, expires, lastPut, expKeys>>

StoreDelete ==
    /\ op = "none"
    /\ \E key \in Keys :
          /\ StoreInstall(Delete(ST, key).s)
          /\ lastPut' = [lastPut EXCEPT ![key] = NoValue]
          /\ StoreCalled("Delete", key, Delete(ST, key).existed)
    /\ UNCHANGED <<accessed, expKeys>>

StoreGetExpiry ==
    /\ op = "none"
    /\ \E key \in Keys : StoreCalled("GetExpiry", key, GetExpiry(ST, key))
    /\ UNCHANGED <<store, expires, accessed, lastPut, expKeys>>

StoreSetExpiry ==
    /\ op = "none"
    /\ \E key \in Keys, expDurationMs \in Durations :
          /\ store[key] # NoValue => Len(expires) < MaxExpires
          /\ StoreInstall(SetExpiry(ST, key, expDurationMs, now))
          /\ expKeys' = IF store[key] # NoValue THEN Append(expKeys, key) ELSE expKeys
          /\ StoreCalled("SetExpiry", <<key, expDurationMs>>, <<>>)
    /\ UNCHANGED <<accessed, lastPut>>

\* time.Now() moves on.
Tick ==
    /\ op = "none"
    /\ now < MaxNow
    /\ now' = now + 1
    /\ UNCHANGED <<ssVars, callVars, lockVars, list, since, twin, store, expires, accessed,
                   lastPut, expKeys, evalVars>>

NextStore ==
    \/ StorePut
    \/ StoreGet
    \/ StoreDelete
    \/ StoreGetExpiry
    \/ StoreSetExpiry
    \/ Tick
    \/ Return

SpecStore == Init /\ [][NextStore]_vars

\* -------------------------------------------------- evaluator specification
\* One command at a time on one Store.  ret is the outcome of the command
\* (result, error, panic), pre the World before it.  A command that would
\* take a score above MaxEvalScore or a list above MaxListLen is left out.
EvalCalled(o, a, r) ==
    /\ op' = o
    /\ args' = a
    /\ ret' = [ret |-> r.ret, err |-> r.err, fault |-> r.fault]
    /\ pre' = World
    /\ LET s == Sweep(r.w, {})
       IN  /\ store' = s.store
           /\ expires' = s.expires
           /\ heap' = s.heap
           /\ accessed' = s.accessed
    /\ UNCHANGED <<ssVars, lockVars, list, since, twin, now, lastPut, expKeys, epc, frame>>

TokenLists(n) == UNION {[1..k -> Tokens] : k \in 0..n}

EvalZADD ==
    /\ op = "none"
    /\ \E key \in EvalKeys, opts \in SUBSET Options, rest \in TokenLists(2 * MaxPairs),
          lv \in [1..MaxPairs -> randomLevel] :
          \E r \in {ZADD(World, key, opts, rest, lv, NewObj(World, {}))} :
             /\ Cardinality(opts) <= MaxOptions
             /\ \A id \in ObjIds, m \in Members :
                   ZScore(r.w.heap[id].ss, m).ret[1] <= MaxEvalScore
             /\ EvalCalled("ZADD", [key |-> key, opts |-> opts, rest |-> rest], r)

EvalZSCORE ==
    /\ op = "none"
    /\ \E key \in EvalKeys, memberStr \in Tokens :
          EvalCalled("ZSCORE", [key |-> key, rest |-> <<memberStr>>],
                     ZSCORE(World, key, memberStr))

EvalZREM ==
    /\ op = "none"
    /\ \E key \in EvalKeys, memberStrs \in TokenLists(MaxPairs) :
          EvalCalled("ZREM", [key |-> key, rest |-> memberStrs],
                     ZREM(World, key, memberStrs))

EvalZINCRBY ==
    /\ op = "none"
    /\ \E key \in EvalKeys, incrementStr \in Tokens, memberStr \in Tokens,
          rl \in randomLevel :
          \E r \in {ZINCRBY(World, key, incrementStr, memberStr, rl, NewObj(World, {}))} :
             /\ \A id \in ObjIds, m \in Members :
                   ZScore(r.w.heap[id].ss, m).ret[1] <= MaxEvalScore
             /\ EvalCalled("ZINCRBY", [key |-> key, rest |-> <<incrementStr, memberStr>>], r)

EvalHDEL ==
    /\ op = "none"
    /\ \E key \in EvalKeys, fieldStrs \in TokenLists(MaxPairs) :
          EvalCalled("HDEL", [key |-> key, rest |-> fieldStrs],
                     HDEL(World, key, fieldStrs))

\* An HINCRBY that would take a value out of Tokens is left out.
EvalHINCRBY ==
    /\ op = "none"
    /\ \E key \in EvalKeys, fieldStr \in Tokens, incrementStr \in Tokens :
          \E r \in {HINCRBY(World, key, fieldStr, incrementStr, NewObj(World, {}))} :
             /\ \A id \in ObjIds : \A f \in DOMAIN r.w.heap[id].data :
                   r.w.heap[id].data[f] \in Tokens
             /\ EvalCalled("HINCRBY", [key |-> key, rest |-> <<fieldStr, incrementStr>>], r)

EvalHINCRBYFLOAT ==
    /\ op = "none"
    /\ \E key \in EvalKeys, fieldStr \in Tokens, incrementStr \in Tokens :
          EvalCalled("HINCRBYFLOAT", [key |-> key, rest |-> <<fieldStr, incrementStr>>],
                     HINCRBYFLOAT(World, key, fieldStr, incrementStr, NewObj(World, {})))

EvalBFADD ==
    /\ op = "none"
    /\ \E key \in EvalKeys, valueStr \in Tokens, resp \in {0, 1} :
          EvalCalled("BFADD", [key |-> key, rest |-> <<valueStr>>],
                     BFADD(World, key, resp, NewObj(World, {})))

EvalHSET ==
    /\ op = "none"
    /\ \E key \in EvalKeys, fieldsAndValues \in TokenLists(2) :
          EvalCalled("HSET", [key |-> key, rest |-> fieldsAndValues],
                     HSET(World, key, fieldsAndValues, NewObj(World, {})))

EvalHGET ==
    /\ op = "none"
    /\ \E key \in EvalKeys, fieldStr \in Tokens :
          EvalCalled("HGET", [key |-> key, rest |-> <<fieldStr>>],
                     HGET(World, key, fieldStr))

\* LPUSH and RPUSH.
EvalPUSH ==
    /\ op = "none"
    /\ \E key \in EvalKeys, valueStrs \in TokenLists(MaxListLen), left \in BOOLEAN :
          LET size == IF store[key] = NoValue THEN 0 ELSE LLen(heap[store[key]].els)
              lead == CHOOSE k \in 0..Len(valueStrs) :
                         /\ \A i \in 1..k : ~convertArgToType(valueStrs[i]).err
                         /\ k < Len(valueStrs) => convertArgToType(valueStrs[k + 1]).err
          IN  /\ size + lead <= MaxListLen
              /\ EvalCalled(IF left THEN "LPUSH" ELSE "RPUSH",
                            [key |-> key, rest |-> valueStrs],
                            PUSH(World, key, valueStrs, left, NewObj(World, {})))

\* LPOP and RPOP.
EvalPOP ==
    /\ op = "none"
    /\ \E key \in EvalKeys, left \in BOOLEAN :
          EvalCalled(IF left THEN "LPOP" ELSE "RPOP", [key |-> key, rest |-> <<>>],
                     POP(World, key, left))

\* The index and count strings the list commands are given.
IntStrs == {IntStr(i) : i \in (0 - 1)..MaxListLen} \cup {BadIntStr}

EvalLSET ==
    /\ op = "none"
    /\ \E key \in EvalKeys, indexStr \in IntStrs, valueStr \in Tokens :
          EvalCalled("LSET", [key |-> key, rest |-> <<indexStr, valueStr>>],
                     LSET(World, key, indexStr, valueStr))

EvalLTRIM ==
    /\ op = "none"
    /\ \E key \in EvalKeys, startStr \in IntStrs, stopStr \in IntStrs :
          EvalCalled("LTRIM", [key |-> key, rest |-> <<startStr, stopStr>>],
                     LTRIM(World, key, startStr, stopStr))

EvalLREM ==
    /\ op = "none"
    /\ \E key \in EvalKeys, countStr \in IntStrs, valueStr \in Tokens :
          EvalCalled("LREM", [key |-> key, rest |-> <<countStr, valueStr>>],
                     LREM(World, key, countStr, valueStr))

EvalBFINIT ==
    /\ op = "none"
    /\ \E key \in EvalKeys :
          EvalCalled("BF.INIT", [key |-> key, rest |-> <<>>],
                     BFINIT(World, key, NewObj(World, {})))

EvalBFINFO ==
    /\ op = "none"
    /\ \E key \in EvalKeys :
          EvalCalled("BF.INFO", [key |-> key, rest |-> <<>>], BFINFO(World, key))

NextEval ==
    \/ EvalZSCORE
    \/ EvalHGET
    \/ EvalPOP
    \/ EvalBFINFO
    \/ EvalBFINIT
    \/ EvalBFADD
    \/ EvalHDEL
    \/ EvalHINCRBY
    \/ EvalHINCRBYFLOAT
    \/ EvalZREM
    \/ EvalZINCRBY
    \/ EvalLSET
    \/ EvalLTRIM
    \/ EvalLREM
    \/ EvalHSET
    \/ EvalPUSH
    \/ EvalZADD
    \/ Return

SpecEval == Init /\ [][NextEval]_vars

\* ------------------------------------------------------ list specification
\* One List and a caller that runs its methods one after the other.
ListCalled(o, a, r, b) ==
    /\ op' = o
    /\ args' = a
    /\ ret' = r
    /\ pre' = list
    /\ list' = b
    /\ UNCHANGED <<ssVars, lockVars, since, twin, storeVars, evalVars>>

CallLPush ==
    /\ op = "none"
    /\ LLen(list) < MaxListNodes
    /\ \E el \in Elements : ListCalled("LPush", [el |-> el], <<>>, LPush(list, el))

CallRPush ==
    /\ op = "none"
    /\ LLen(list) < MaxListNodes
    /\ \E el \in Elements : ListCalled("RPush", [el |-> el], <<>>, RPush(list, el))

CallLLen ==
    /\ op = "none"
    /\ ListCalled("LLen", <<>>, LLen(list), list)

CallLIndex ==
    /\ op = "none"
    /\ \E index \in ListIdx :
          ListCalled("LIndex", [index |-> index], LIndex(list, index), list)

CallLPop ==
    /\ op = "none"
    /\ LET r == LPop(list)
       IN  ListCalled("LPop", <<>>, [el |-> r.el, empty |-> r.empty, fault |-> r.fault], r.b)

CallRPop ==
    /\ op = "none"
    /\ LET r == RPop(list)
       IN  ListCalled("RPop", <<>>, [el |-> r.el, empty |-> r.empty, fault |-> r.fault], r.b)

CallLSet ==
    /\ op = "none"
    /\ \E index \in ListIdx, el \in Elements :
          LET r == LSet(list, index, el)
          IN  ListCalled("LSet", [index |-> index, el |-> el],
                         [err |-> r.err, fault |-> r.fault], r.b)

CallLTrim ==
    /\ op = "none"
    /\ \E start \in ListIdx, stop \in ListIdx :
          LET r == LTrim(list, start, stop)
          IN  ListCalled("LTrim", [start |-> start, stop |-> stop],
                         [err |-> r.err, fault |-> r.fault], r.b)

CallLRem ==
    /\ op = "none"
    /\ \E count \in ListIdx, el \in Elements :
          LET r == LRem(list, count, el)
          IN  ListCalled("LRem", [count |-> count, el |-> el],
                         [removed |-> r.removed, fault |-> r.fault], r.b)

NextList ==
    \/ CallLLen
    \/ CallLIndex
    \/ CallLPush
    \/ CallRPush
    \/ CallLPop
    \/ CallRPop
    \/ CallLSet
    \/ CallLTrim
    \/ CallLRem
    \/ Return

SpecList == Init /\ [][NextList]_vars

\* ------------------------------------------------------- set specification
\* A caller of set.NewSet.
CallNewSet ==
    /\ op = "none"
    /\ \E n \in 0..MaxSetValues : \E values \in [1..n -> SetStrings] :
          /\ op' = "NewSet"
          /\ args' = [values |-> values]
          /\ ret' = NewSet(values)
          /\ pre' = <<>>
          /\ UNCHANGED <<ssVars, lockVars, outsideSS>>

NextSet ==
    \/ CallNewSet
    \/ Return

SpecSet == Init /\ [][NextSet]_vars

\* ------------------------------------------------------ race specification
\* Evaluators in parallel goroutines, each running one ZADD key INCR d member
\* on the first key of one Store that nothing locks.  A step is one call
\* into the Store or into the SortedSet (whose own mutex makes ZScore and
\* ZAdd atomic, each on its own).  The map operations are taken as atomic:
\* the data races inside the unsynchronised map only add outcomes.  pre is
\* the World when the first command starts.
RaceKey == 1

\* The instances the running evaluators refer to.
Refs == {frame[g].obj : g \in Evaluators} \ {NoValue}

RaceInstall(w) ==
    /\ store' = w.store
    /\ expires' = w.expires
    /\ heap' = w.heap
    /\ accessed' = w.accessed
    /\ UNCHANGED <<ssVars, op, args, ret, lockVars, list, since, twin, now, lastPut, expKeys>>

\* An earlier command, ZADD key score member, ran to its end before the
\* parallel ones start.
RaceSeed ==
    /\ \A g \in Evaluators : epc[g] = "idle"
    /\ store[RaceKey] = NoValue
    /\ \E score \in Scores, member \in EvalMembers, lv \in [1..MaxPairs -> randomLevel] :
          RaceInstall(ZADD(World, RaceKey, {}, <<score, member>>, lv, NewObj(World, {})).w)
    /\ UNCHANGED <<pre, epc, frame>>

\* ZADD key INCR d member is called: the argument checks pass.
RaceCall(g) ==
    /\ epc[g] = "idle"
    /\ \E d \in Scores, member \in EvalMembers :
          frame' = [frame EXCEPT ![g] = [NoFrame EXCEPT !.d = d, !.member = member]]
    /\ epc' = [epc EXCEPT ![g] = "get"]
    /\ pre' = IF \A h \in Evaluators : epc[h] = "idle" THEN World ELSE pre
    /\ UNCHANGED <<ssVars, op, args, ret, lockVars, list, since, twin, storeVars, heap>>

\* getOrCreateSortedSet up to its test of exists: e.store.Get(key).
RaceGet(g) ==
    /\ epc[g] = "get"
    /\ LET r == EvalGet(World, RaceKey)
       IN  /\ RaceInstall(r.w)
           /\ frame' = [frame EXCEPT ![g].exists = r.exists, ![g].obj = r.obj]
           /\ epc' = [epc EXCEPT ![g] = IF r.exists THEN "zscore" ELSE "put"]
    /\ UNCHANGED pre

\* getOrCreateSortedSet after it found no key: NewSortedSet and e.store.Put.
RacePut(g) ==
    /\ epc[g] = "put"
    /\ LET id == NewObj(World, Refs)
       IN  /\ RaceInstall(EvalPut(World, RaceKey, id, NewSortedSetObj))
           /\ frame' = [frame EXCEPT ![g].obj = id]
    /\ epc' = [epc EXCEPT ![g] = "zscore"]
    /\ UNCHANGED pre

\* ss.ZScore(member), the option checks and the sum of INCR.
RaceZScore(g) ==
    /\ epc[g] = "zscore"
    /\ LET zs == ZScore(heap[frame[g].obj].ss, frame[g].member).ret
       IN  /\ ~Skips({"INCR"}, frame[g].d, zs[1], zs[2])
           /\ frame' = [frame EXCEPT ![g].existingScore = zs[1], ![g].exists = zs[2],
                                     ![g].score = Incremented({"INCR"}, frame[g].d, zs[1], zs[2])]
    /\ epc' = [epc EXCEPT ![g] = "zadd"]
    /\ UNCHANGED <<ssVars, callVars, lockVars, list, since, twin, storeVars, heap>>

\* ss.ZAdd(map[T]float64{member: score}) and the return of score.
RaceZAdd(g) ==
    /\ epc[g] = "zadd"
    /\ frame[g].score <= MaxEvalScore
    /\ \E rl \in randomLevel :
          LET res == ZAddPair(heap[frame[g].obj].ss, frame[g].member, frame[g].score, rl)
          IN  heap' = [heap EXCEPT ![frame[g].obj].ss = Collect(res.ss)]
    /\ epc' = [epc EXCEPT ![g] = "done"]
    /\ UNCHANGED <<ssVars, callVars, lockVars, list, since, twin, storeVars, frame>>

NextRace ==
    \/ RaceSeed
    \/ \E g \in Evaluators :
          \/ RaceCall(g)
          \/ RaceGet(g)
          \/ RacePut(g)
          \/ RaceZScore(g)
          \/ RaceZAdd(g)

SpecRace == Init /\ [][NextRace]_vars

\* ------------------------------------------------- concurrent specification
\* Goroutines calling into one SortedSet through its sync.RWMutex mu.
\* held[p] counts the read locks goroutine p holds, writer is the goroutine
\* holding the write lock (0: none), pending the writers that have called
\* Lock and wait for the readers to drain.  RLock blocks while a writer holds
\* or waits for the lock; Lock blocks while any read lock is held.
\* Mutant of CanRLock: RLock does not wait for the writer holding the lock.
CanRLock_IgnoresWriter == pending = {}

CanRLock == writer = 0 /\ pending = {}

ActiveReaders == {p \in Procs : held[p] > 0}

\* A score-changing ZAdd has deleted the member's node and not yet inserted
\* the new one: the member is missing from dict and length is one short.
MidUpdate == \E w \in WriterProcs : pc[w] = "reinsert"

ReadKinds == {"ZScore", "ZRank", "ZRevRank", "ZRange", "ZCard"}

\* A read method is called (ZRange over the whole set).
ReadCall(p) ==
    /\ pc[p] = "idle"
    /\ \E member \in Members, kind \in ReadKinds :
          local' = [local EXCEPT ![p] = [NoLocal EXCEPT !.kind = kind, !.member = member]]
    /\ pc' = [pc EXCEPT ![p] = "RLock"]
    /\ UNCHANGED <<outsideSS, ssVars, callVars, held, writer, pending>>

\* ss.mu.RLock() at the top of the read method.
ReadLock(p) ==
    /\ pc[p] = "RLock"
    /\ CanRLock
    /\ held' = [held EXCEPT ![p] = held[p] + 1]
    /\ pc' = [pc EXCEPT ![p] = "lookup"]
    /\ UNCHANGED <<outsideSS, ssVars, callVars, writer, pending, local>>

\* ZRank / ZRevRank: node, exists := ss.dict[member]; if !exists { return 0, false }
ReadLookup(p) ==
    /\ pc[p] = "lookup"
    /\ local[p].kind \in {"ZRank", "ZRevRank"}
    /\ LET n == dict[local[p].member]
       IN  IF n = Nil
           THEN /\ pc' = [pc EXCEPT ![p] = "RUnlock"]
                /\ local' = [local EXCEPT ![p].index = -1, ![p].torn = MidUpdate]
           ELSE /\ pc' = [pc EXCEPT ![p] = "findRLock"]
                /\ local' = [local EXCEPT ![p].n = n, ![p].torn = MidUpdate]
    /\ UNCHANGED <<outsideSS, ssVars, callVars, held, writer, pending>>

\* The body of ZScore, ZRange or ZCard.
ReadQuery(p) ==
    /\ pc[p] = "lookup"
    /\ local[p].kind \in {"ZScore", "ZRange", "ZCard"}
    /\ LET r == CASE local[p].kind = "ZScore" -> ZScore(SS, local[p].member).ret
                  [] local[p].kind = "ZRange" -> ZRange(SS, 0, -1, FALSE).ret
                  [] local[p].kind = "ZCard" -> ZCard(SS).ret
       IN  local' = [local EXCEPT ![p].seen = r, ![p].torn = MidUpdate]
    /\ pc' = [pc EXCEPT ![p] = "RUnlock"]
    /\ UNCHANGED <<outsideSS, ssVars, callVars, held, writer, pending>>

\* ss.mu.RLock() at the top of findNodeIndex, with the caller's read lock held.
FindLock(p) ==
    /\ pc[p] = "findRLock"
    /\ CanRLock
    /\ held' = [held EXCEPT ![p] = held[p] + 1]
    /\ pc' = [pc EXCEPT ![p] = "find"]
    /\ UNCHANGED <<outsideSS, ssVars, callVars, writer, pending, local>>

\* The body of findNodeIndex and its deferred RUnlock.
FindUnlock(p) ==
    /\ pc[p] = "find"
    /\ local' = [local EXCEPT ![p].index = findNodeIndex(SS, local[p].n),
                              ![p].torn = local[p].torn \/ MidUpdate]
    /\ held' = [held EXCEPT ![p] = held[p] - 1]
    /\ pc' = [pc EXCEPT ![p] = "RUnlock"]
    /\ UNCHANGED <<outsideSS, ssVars, callVars, writer, pending>>

\* The deferred ss.mu.RUnlock() of the read method; the call returns.
ReadUnlock(p) ==
    /\ pc[p] = "RUnlock"
    /\ held' = [held EXCEPT ![p] = held[p] - 1]
    /\ pc' = [pc EXCEPT ![p] = "idle"]
    /\ local' = [local EXCEPT ![p] = NoLocal]
    /\ UNCHANGED <<outsideSS, ssVars, callVars, writer, pending>>

\* ZAdd / ZRem is called: ss.mu.Lock() is entered.
WriteCall(p) ==
    /\ pc[p] = "idle"
    /\ pc' = [pc EXCEPT ![p] = "Lock"]
    /\ UNCHANGED <<outsideSS, ssVars, callVars, held, writer, pending, local>>

\* Lock announces the writer: from here on new RLock calls block.
WriteAnnounce(p) ==
    /\ pc[p] = "Lock"
    /\ writer = 0 /\ pending = {}
    /\ pending' = {p}
    /\ pc' = [pc EXCEPT ![p] = "drain"]
    /\ UNCHANGED <<outsideSS, ssVars, callVars, held, writer, local>>

\* Lock returns once no read lock is held.
WriteLock(p) ==
    /\ pc[p] = "drain"
    /\ ActiveReaders = {}
    /\ writer' = p
    /\ pending' = pending \ {p}
    /\ pc' = [pc EXCEPT ![p] = "body"]
    /\ UNCHANGED <<outsideSS, ssVars, callVars, held, local>>

\* The body of ZAdd (one pair) or ZRem (one member), run under the write
\* lock.  A ZAdd that changes the score of a present member runs
\* ss.deleteNode(node) here and ss.insertNode(score, member) in the next step.
WriteBody(p) ==
    /\ pc[p] = "body"
    /\ \/ \E member \in Members, score \in Scores, rl \in randomLevel :
             LET n == dict[member]
             IN  IF n # Nil /\ node[n].score # score
                 THEN /\ Install(deleteNode(SS, n))
                      /\ local' = [local EXCEPT ![p] = [NoLocal EXCEPT !.kind = "ZAdd",
                                      !.member = member, !.score = score, !.rl = rl]]
                      /\ pc' = [pc EXCEPT ![p] = "reinsert"]
                 ELSE /\ Install(ZAdd(SS, [m \in {member} |-> score], <<member>>,
                                      [m \in {member} |-> rl]).ss)
                      /\ pc' = [pc EXCEPT ![p] = "Unlock"]
                      /\ UNCHANGED local
       \/ \E member \in Members :
             /\ Install(ZRem(SS, <<member>>).ss)
             /\ pc' = [pc EXCEPT ![p] = "Unlock"]
             /\ UNCHANGED local
    /\ UNCHANGED <<outsideSS, callVars, held, writer, pending>>

\* ss.insertNode(score, member) of a score-changing ZAdd.
WriteReinsert(p) ==
    /\ pc[p] = "reinsert"
    /\ Install(insertNode(SS, local[p].score, local[p].member, local[p].rl))
    /\ local' = [local EXCEPT ![p] = NoLocal]
    /\ pc' = [pc EXCEPT ![p] = "Unlock"]
    /\ UNCHANGED <<outsideSS, callVars, held, writer, pending>>

\* The deferred ss.mu.Unlock().
WriteUnlock(p) ==
    /\ pc[p] = "Unlock"
    /\ writer' = 0
    /\ pc' = [pc EXCEPT ![p] = "idle"]
    /\ UNCHANGED <<outsideSS, ssVars, callVars, held, pending, local>>

\* The steps a goroutine takes once it is inside a call.
Running(p) ==
    \/ ReadLock(p)
    \/ ReadLookup(p)
    \/ ReadQuery(p)
    \/ FindLock(p)
    \/ FindUnlock(p)
    \/ ReadUnlock(p)
    \/ WriteAnnounce(p)
    \/ WriteLock(p)
    \/ WriteBody(p)
    \/ WriteReinsert(p)
    \/ WriteUnlock(p)

NextLock ==
    \/ \E p \in ReaderProcs : ReadCall(p)
    \/ \E p \in WriterProcs : WriteCall(p)
    \/ \E p \in Procs : Running(p)

\* The Go scheduler runs every runnable goroutine, and a goroutine blocked on
\* the mutex is woken when the lock becomes available to it.
SpecLock ==
    /\ Init
    /\ [][NextLock]_vars
    /\ \A p \in Procs : WF_vars(Running(p))
    /\ \A p \in Procs : SF_vars(ReadLock(p) \/ FindLock(p) \/ WriteAnnounce(p) \/ WriteLock(p))

\* ------------------------------------------------------- abstract readings
\* Members the dict holds, and the score the dict's node gives each.
Present(ss) == {m \in Members : ss.dict[m] # Nil}

ScoreOf(ss, m) == ss.node[ss.dict[m]].score

\* The forward[lvl] chain from the header, as node ids (cut off after as many
\* steps as there are nodes, so that a cyclic chain shows up as over-long).
RECURSIVE Chain(_, _, _, _)
Chain(nd, x, lvl, fuel) ==
    IF x = Nil \/ fuel = 0 THEN <<>>
    ELSE <<x>> \o Chain(nd, nd[x].forward[lvl + 1], lvl, fuel - 1)

Level0(ss) == Chain(ss.node, ss.node[Header].forward[1], 0, Cardinality(NodeIds) + 1)

\* (s1, m1) orders strictly before (s2, m2).
PairLess(s1, m1, s2, m2) == s1 < s2 \/ (s1 = s2 /\ m1 < m2)

\* Number of present members ordered strictly before m.
Position(ss, m) ==
    Cardinality({o \in Present(ss) :
                    PairLess(ScoreOf(ss, o), o, ScoreOf(ss, m), m)})

\* The present members in ascending (score, member) order.
Ascending(ss) ==
    [i \in 1..Cardinality(Present(ss)) |->
        CHOOSE m \in Present(ss) : Position(ss, m) = i - 1]

\* The subsequence of a sequence whose elements lie in a set.
RECURSIVE Filter(_, _)
Filter(seq, keep) ==
    IF seq = <<>> THEN <<>>
    ELSE IF Head(seq) \in keep
         THEN <<Head(seq)>> \o Filter(Tail(seq), keep)
         ELSE Filter(Tail(seq), keep)

AllMembers(ss) == ZRange(ss, 0, -1, FALSE).ret

\* ---------------------------------------------------------------- claims

\* C1: after any sequence of ZAdd and ZRem calls, whatever levels were drawn,
\* the forward[0] walk from the header visits members in strictly ascending
\* (score, member) order, ties on score broken by member order.
C1_Level0Ascending ==
    LET w == Level0(SS)
    IN  \A i \in 1..(Len(w) - 1) :
           PairLess(node[w[i]].score, node[w[i]].member,
                    node[w[i + 1]].score, node[w[i + 1]].member)

\* Three members in the list after a ZAdd, two of them tied on score.
C1_Witness ==
    /\ op = "ZAdd"
    /\ Len(Level0(SS)) = 3
    /\ \E a, b \in Present(SS) : a # b /\ ScoreOf(SS, a) = ScoreOf(SS, b)
    /\ \E a, b \in Present(SS) : ScoreOf(SS, a) # ScoreOf(SS, b)

\* C2: the members on the level-0 walk are exactly the keys of dict, each
\* occurs once, dict[m] is the list node holding m, and length (what ZCard
\* returns) equals both counts.
C2_IndexListAgree ==
    LET w == Level0(SS)
    IN  /\ {node[w[i]].member : i \in 1..Len(w)} = Present(SS)
        /\ \A i, j \in 1..Len(w) : node[w[i]].member = node[w[j]].member => i = j
        /\ \A i \in 1..Len(w) : dict[node[w[i]].member] = w[i]
        /\ length = Len(w)
        /\ length = Cardinality(Present(SS))
        /\ ZCard(SS).ret = Cardinality(Present(SS))

\* A ZRem that removed a member and left others, or a score-changing ZAdd.
C2_Witness ==
    \/ op = "ZRem" /\ ret = 1 /\ length = 2
    \/ op = "ZAdd" /\ ret = 0 /\ pre # SS /\ length = 3

\* C3: for every present member m, ZRank(m) = (r, true) with r the number of
\* members ordered strictly before m, and ZRange(r, r, false) = [m].
C3_RankIsPosition ==
    (op = "ZRank" /\ args \in Present(SS)) =>
        /\ ret = <<Position(SS, args), TRUE>>
        /\ ZRange(SS, ret[1], ret[1], FALSE).ret = <<args>>

\* C4: ZRange maps a negative index i to n+i, clamps start to >= 0 and stop
\* to <= n-1, is empty when start > stop or start >= n, and otherwise is the
\* members at ascending positions start..stop (each followed by its score
\* when withScores).
ExpectedRange(ss, start, stop, withScores) ==
    LET n  == Cardinality(Present(ss))
        s0 == IF start < 0 THEN n + start ELSE start
        e0 == IF stop < 0 THEN n + stop ELSE stop
        s1 == IF s0 < 0 THEN 0 ELSE s0
        e1 == IF e0 > n - 1 THEN n - 1 ELSE e0
        asc == Ascending(ss)
    IN  IF s1 > e1 \/ s1 >= n THEN <<>>
        ELSE IF withScores
             THEN [k \in 1..(2 * (e1 - s1 + 1)) |->
                      IF k % 2 = 1 THEN asc[s1 + 1 + ((k - 1) \div 2)]
                      ELSE ScoreOf(ss, asc[s1 + 1 + ((k - 1) \div 2)])]
             ELSE [k \in 1..(e1 - s1 + 1) |-> asc[s1 + k]]

C4_RangeByIndex ==
    op = "ZRange" => ret = ExpectedRange(SS, args[1], args[2], args[3])

\* A range with a negative start and scores, returning two of three members.
C4_Witness ==
    /\ op = "ZRange"
    /\ length = 3
    /\ args[1] = -2 /\ args[2] = 3 /\ args[3]
    /\ Len(ret) = 4

\* C5: ZAdd returns the number of members of memberScores absent before the
\* call (a present member given another score is not counted), and a call
\* whose members are all present with the same score changes nothing.
C5_AddedCount ==
    op = "ZAdd" =>
        /\ ret = Cardinality({m \in DOMAIN args : pre.dict[m] = Nil})
        /\ (\A m \in DOMAIN args : pre.dict[m] # Nil /\ ScoreOf(pre, m) = args[m])
              => SS = pre

\* A two-member ZAdd: one member new, the other present with another score.
C5_Witness ==
    /\ op = "ZAdd"
    /\ ret = 1
    /\ \E a, b \in DOMAIN args :
          /\ pre.dict[a] = Nil
          /\ pre.dict[b] # Nil /\ ScoreOf(pre, b) # args[b]

\* C6: after ZAdd(memberScores), ZScore(m) = (s, true) for every pair (m, s),
\* whether m was absent or present with another score.
C6_AddThenScore ==
    op = "ZAdd" => \A m \in DOMAIN args : ZScore(SS, m).ret = <<args[m], TRUE>>

C6_Witness ==
    /\ op = "ZAdd"
    /\ \E m \in DOMAIN args : pre.dict[m] # Nil /\ ScoreOf(pre, m) # args[m]
    /\ \E m \in DOMAIN args : pre.dict[m] = Nil

\* C7: a ZAdd that gives present members different scores (and adds none)
\* leaves ZCard unchanged; each such member appears exactly once in
\* ZRange(0, -1), at the position its new score determines, and the other
\* members keep their relative order.
Rescored == {m \in DOMAIN args : pre.dict[m] # Nil /\ ScoreOf(pre, m) # args[m]}

C7_Rescore ==
    (op = "ZAdd" /\ Rescored # {} /\ \A m \in DOMAIN args : pre.dict[m] # Nil) =>
        /\ ZCard(SS).ret = ZCard(pre).ret
        /\ \A m \in Rescored :
              /\ Len(Filter(AllMembers(SS), {m})) = 1
              /\ AllMembers(SS)[Position(SS, m) + 1] = m
              /\ ScoreOf(SS, m) = args[m]
        /\ Filter(AllMembers(SS), Members \ DOMAIN args)
              = Filter(AllMembers(pre), Members \ DOMAIN args)

\* The first of three members is moved behind the other two.
C7_Witness ==
    /\ op = "ZAdd"
    /\ Cardinality(DOMAIN args) = 1
    /\ Rescored # {}
    /\ length = 3
    /\ \E m \in Rescored : AllMembers(pre)[1] = m /\ AllMembers(SS)[3] = m

\* C8: ZRem returns the number of distinct listed members present before;
\* afterwards each listed member has ZScore (0, false) and is in no range,
\* and the unlisted members keep their scores and relative order.
C8_Remove ==
    op = "ZRem" =>
        /\ ret = Cardinality(Range(args) \cap Present(pre))
        /\ \A m \in Range(args) :
              /\ ZScore(SS, m).ret = <<0, FALSE>>
              /\ Filter(ZRange(SS, 0, -1, FALSE).ret, {m}) = <<>>
        /\ \A m \in Members \ Range(args) : ZScore(SS, m).ret = ZScore(pre, m).ret
        /\ AllMembers(SS) = Filter(AllMembers(pre), Members \ Range(args))

\* ZRem(m, m) with m present and two other members staying.
C8_Witness ==
    /\ op = "ZRem"
    /\ Len(args) = 2 /\ args[1] = args[2]
    /\ ret = 1
    /\ length = 2

\* C9: for every present member m of a set of n members, ZRank(m) and
\* ZRevRank(m) report exists = true and ZRank(m) + ZRevRank(m) = n - 1.
C9_RankRevRank ==
    \A m \in Present(SS) :
        /\ ZRank(SS, m).ret[2]
        /\ ZRevRank(SS, m).ret[2]
        /\ ZRank(SS, m).ret[1] + ZRevRank(SS, m).ret[1] = Cardinality(Present(SS)) - 1

\* ZRevRank was called on a member of a three-member set whose level is 2.
C9_Witness ==
    /\ op = "ZRevRank"
    /\ args \in Present(SS)
    /\ length = 3
    /\ level = 2
    /\ ret[2]

\* C10: every ZRank / ZRevRank call eventually returns under any interleaving
\* with concurrent ZAdd / ZRem calls: no reachable state has a reader and a
\* writer waiting on each other.  A reader waits on a writer when its RLock
\* is blocked by the writer's pending Lock; the writer waits on the reader
\* when the reader holds a read lock.
ReaderWaitsOn(r, w) ==
    /\ pc[r] \in {"RLock", "findRLock"}
    /\ w \in pending \/ writer = w

WriterWaitsOn(w, r) ==
    /\ pc[w] = "drain"
    /\ held[r] > 0

C10_NoReaderWriterWait ==
    \A r \in ReaderProcs, w \in WriterProcs :
        ~(ReaderWaitsOn(r, w) /\ WriterWaitsOn(w, r))

\* The forward[L] chain from the header, as node ids; the walk stops at a
\* node that has no forward[L].
RECURSIVE Walk(_, _, _, _)
Walk(nd, x, L, fuel) ==
    IF x = Nil \/ fuel = 0 THEN <<>>
    ELSE IF Len(nd[x].forward) <= L THEN <<x>>
    ELSE <<x>> \o Walk(nd, nd[x].forward[L + 1], L, fuel - 1)

LevelChain(ss, L) ==
    Walk(ss.node, ss.node[Header].forward[L + 1], L, Cardinality(NodeIds) + 1)

\* The nodes the dict refers to: the nodes of the members not removed.
LiveNodes(ss) == Range(ss.dict) \ {Nil}

\* The highest level count at which the header has a successor, 1 if none.
TopLevel(ss) ==
    LET used == {l \in 1..maxLevel : ss.node[Header].forward[l] # Nil}
    IN  IF used = {} THEN 1 ELSE CHOOSE l \in used : \A o \in used : o <= l

\* C12: 1 <= level <= 32 always, and level is the highest level at which the
\* header has a non-nil forward pointer (1 for an empty set): it rises when a
\* taller node is inserted and shrinks when the top-level nodes are removed.
C12_LevelIsTop ==
    /\ level \in 1..maxLevel
    /\ level = TopLevel(SS)

\* A ZRem removed the only two-level node of a set that still has members.
C12_Witness ==
    /\ op = "ZRem"
    /\ pre.level = 2
    /\ level = 1
    /\ length >= 1

\* C13: at every level L >= 1 the forward[L] chain from the header is
\* strictly ascending in (score, member), is the subsequence of the level
\* L - 1 chain made of exactly the nodes whose forward array is longer than
\* L, and no node of a removed member is reachable at any level.
C13_LevelChains ==
    /\ \A L \in 1..(maxLevel - 1) :
          LET c == LevelChain(SS, L)
          IN  /\ \A i \in 1..(Len(c) - 1) :
                    PairLess(node[c[i]].score, node[c[i]].member,
                             node[c[i + 1]].score, node[c[i + 1]].member)
              /\ c = Filter(LevelChain(SS, L - 1),
                            {x \in LiveNodes(SS) : Len(node[x].forward) > L})
              /\ Range(c) = {x \in LiveNodes(SS) : Len(node[x].forward) > L}
    /\ \A L \in 0..(maxLevel - 1) :
          \A x \in Range(LevelChain(SS, L)) :
             x \in LiveNodes(SS) /\ dict[node[x].member] = x

\* A ZRem removed a two-level node and another two-level node stays linked
\* at level 1, next to a one-level node.
C13_Witness ==
    /\ op = "ZRem"
    /\ ret = 1
    /\ \E i \in DOMAIN args :
          /\ pre.dict[args[i]] # Nil
          /\ Len(pre.node[pre.dict[args[i]]].forward) = 2
    /\ Len(LevelChain(SS, 1)) = 1
    /\ Len(LevelChain(SS, 0)) = 2

InWriteBody(p) == pc[p] \in {"body", "reinsert", "Unlock"}

InBody(p) == pc[p] \in {"lookup", "findRLock", "find", "RUnlock", "body", "reinsert", "Unlock"}

C11_WriterExcludes ==
    /\ \A w \in Procs, q \in Procs : (w # q /\ InWriteBody(w)) => ~InBody(q)
    /\ \A r \in ReaderProcs : ~local[r].torn

\* A writer is between the deleteNode and the insertNode of a score-changing
\* ZAdd while a reader has called ZScore for the same member and the other
\* writer has called ZAdd / ZRem.
C11_Witness ==
    \E w \in WriterProcs, r \in ReaderProcs, o \in WriterProcs :
        /\ pc[w] = "reinsert"
        /\ dict[local[w].member] = Nil
        /\ pc[r] = "RLock"
        /\ local[r].kind = "ZScore"
        /\ local[r].member = local[w].member
        /\ o # w
        /\ pc[o] = "Lock"

\* C15: the results of ZScore, ZRank, ZRevRank, ZRange and ZCard depend only
\* on the sequence of ZAdd / ZRem calls made, never on the levels randomLevel
\* drew: two sets that received the same calls return the same results.
C15_LevelIndependent ==
    op \in {"ZScore", "ZRank", "ZRevRank", "ZRange", "ZCard"} => ret[1] = ret[2]

\* C16: after Put(key, v, d), for any d, Get(key) returns (v, true) whatever
\* the store held under key before, and keeps doing so until the next Put or
\* Delete of that key; the entries under other keys are unchanged by the Put.
C16_PutThenGet ==
    /\ op = "Put" =>
          /\ Get(ST, args[1]) = <<args[2], TRUE>>
          /\ \A k \in Keys \ {args[1]} : Get(ST, k) = Get(pre, k)
    /\ op = "Get" /\ lastPut[args] # NoValue => ret = <<lastPut[args], TRUE>>

\* Get was called on a key whose value a Put replaced, after a SetExpiry of
\* that key and with the other key present.
C16_Witness ==
    /\ op = "Get"
    /\ ret = <<2, TRUE>>
    /\ lastPut[args] = 2
    /\ \E i \in DOMAIN expires : expires[i].val = 1 /\ expires[i].deadline > MaxDuration
    /\ \A k \in Keys : store[k] # NoValue

\* C17: Put with expDurationMs > 0 records the absolute deadline
\* now + expDurationMs, not the bare duration.
C17_PutRecordsDeadline ==
    op = "Put" /\ args[3] > 0 =>
        /\ Len(expires) = Len(pre.expires) + 1
        /\ expires[Len(expires)].deadline = now + args[3]

\* C18: after Put(key, v, d) with d > 0 and no other operation on key in
\* between, GetExpiry(key) returns found = true with the deadline the Put
\* recorded.
C18_PutThenGetExpiry ==
    op = "Put" /\ args[3] > 0 =>
        GetExpiry(ST, args[1]) = <<expires[Len(expires)].deadline, TRUE>>

\* C19: after Put(key, v, d) with d <= 0, GetExpiry(key) returns found = false
\* whatever Put or SetExpiry calls were made for that key earlier, because a
\* previous deadline for the key is cleared: expires holds no record that an
\* earlier Put or SetExpiry of the key added; and GetExpiry on an absent key
\* returns (0, false).
C19_DeadlineCleared ==
    /\ op = "Put" /\ args[3] <= 0 =>
          /\ ~GetExpiry(ST, args[1])[2]
          /\ \A i \in DOMAIN expires : expKeys[i] # args[1]
    /\ op = "GetExpiry" /\ pre.store[args] = NoValue => ret = <<0, FALSE>>

\* C20: every record in expires belongs to an entry that is still live, and
\* expires never holds more records than the store holds keys: Delete and an
\* overwriting Put remove the expiry record of the entry they remove.
C20_ExpiresLive ==
    /\ \A i \in DOMAIN expires : \E k \in Keys : store[k] = expires[i].val
    /\ Len(expires) <= Cardinality({k \in Keys : store[k] # NoValue})

\* C21: Delete(key) returns true exactly when key was present; afterwards
\* Get(key) returns found = false, a second Delete(key) returns false and
\* changes nothing, and the entries under other keys are unchanged.
C21_Delete ==
    op = "Delete" =>
        /\ ret = (pre.store[args] # NoValue)
        /\ ~Get(ST, args)[2]
        /\ Delete(ST, args) = [s |-> ST, existed |-> FALSE]
        /\ \A k \in Keys \ {args} : Get(ST, k) = Get(pre, k)

\* Delete removed a key while the other key was present.
C21_Witness ==
    /\ op = "Delete"
    /\ ret = TRUE
    /\ \E k \in Keys \ {args} : store[k] # NoValue

\* The records of expires made for the value v, and whether the clock is
\* beyond every one of them.
RecordsOf(e, v) == {i \in DOMAIN e : e[i].val = v}

DeadlinePassed(e, v, t) ==
    /\ RecordsOf(e, v) # {}
    /\ \A i \in RecordsOf(e, v) : e[i].deadline < t

\* C22: Get(key) returns found = false for an entry whose recorded expiry
\* deadline has passed: once the clock is beyond the deadline set by Put or
\* SetExpiry, Get does not return the entry.
C22_ExpiredIsAbsent ==
    op = "Get" /\ pre.store[args] # NoValue
               /\ DeadlinePassed(pre.expires, pre.store[args], now) => ~ret[2]

\* C23: SetExpiry(key, d) on a key that is not in the store is a no-op: the
\* key map and the expires table are both unchanged and no entry is created.
C23_SetExpiryAbsent ==
    op = "SetExpiry" /\ pre.store[args[1]] = NoValue => ST = pre

\* SetExpiry was called on an absent key while the other key is present and
\* has an expiry record.
C23_Witness ==
    /\ op = "SetExpiry"
    /\ pre.store[args[1]] = NoValue
    /\ \E k \in Keys : store[k] # NoValue /\ RecordsOf(expires, store[k]) # {}

\* C24: after SetExpiry(key, d) on an existing key, GetExpiry(key) returns
\* (now + d, true), and a second SetExpiry(key, d2) overwrites that deadline,
\* so that the key has exactly one expiry record.
C24_SetThenGetExpiry ==
    op = "SetExpiry" /\ pre.store[args[1]] # NoValue =>
        /\ GetExpiry(ST, args[1]) = <<now + args[2], TRUE>>
        /\ Cardinality(RecordsOf(expires, store[args[1]])) = 1

\* ------------------------------------------------------ evaluator claims
\* The kind of collection a command works on.
KindOf(o) ==
    CASE o \in {"ZADD", "ZSCORE", "ZREM", "ZINCRBY"} -> "SortedSet"
      [] o \in {"HSET", "HGET", "HDEL", "HINCRBY", "HINCRBYFLOAT"} -> "Hash"
      [] o \in {"LPUSH", "RPUSH", "LPOP", "RPOP", "LSET", "LTRIM", "LREM"} -> "List"
      [] o \in {"BF.INIT", "BF.INFO", "BFADD"} -> "Bloom"
      [] OTHER -> "none"

EvalOps == {"ZADD", "ZSCORE", "ZREM", "ZINCRBY", "HSET", "HGET", "HDEL", "HINCRBY",
            "HINCRBYFLOAT", "LPUSH", "RPUSH", "LPOP", "RPOP", "LSET", "LTRIM", "LREM",
            "BF.INIT", "BF.INFO", "BFADD"}

\* The key of the command holds a collection of another kind.
OtherKind ==
    /\ op \in EvalOps
    /\ pre.store[args.key] # NoValue
    /\ pre.heap[pre.store[args.key]].kind # KindOf(op)

\* Errors about the arguments, which a command reports before it looks at
\* the key.
ArgErrors == {"wrong number of arguments", "syntax error", "invalid field",
              "invalid increment", "invalid member", "invalid value",
              "invalid increment for 'HINCRBY' command",
              "invalid increment for 'HINCRBYFLOAT' command",
              "invalid index for 'LSET' command", "invalid index for 'LTRIM' command",
              "invalid count for 'LREM' command"}

\* C25: a command on a key that holds a collection of another kind returns a
\* wrong-type error, does not panic, and leaves the entry under the key as
\* it was (commands rejected for their arguments alone set aside).
C25_WrongType ==
    OtherKind /\ ret.err \notin ArgErrors =>
       /\ ret.err = "wrong type"
       /\ ~ret.fault
       /\ store[args.key] = pre.store[args.key]
       /\ heap[store[args.key]] = pre.heap[pre.store[args.key]]

\* The elements of the list under the key before the command (<<>> when the
\* key holds no list).
ListBefore ==
    IF pre.store[args.key] # NoValue /\ pre.heap[pre.store[args.key]].kind = "List"
    THEN Forward(pre.heap[pre.store[args.key]].els)
    ELSE <<>>

\* C26: an LPOP or RPOP that removes the last element of the list under the
\* key deletes the key (Store.Get then finds nothing); when elements remain
\* the key keeps its list, less the element popped.
C26_PopToEmpty ==
    op \in {"LPOP", "RPOP"} /\ ListBefore # <<>> =>
       /\ ret.err = NoErr /\ ~ret.fault
       /\ ret.ret = IF op = "LPOP" THEN Head(ListBefore) ELSE ListBefore[Len(ListBefore)]
       /\ IF Len(ListBefore) = 1
          THEN ~Get(ST, args.key)[2]
          ELSE /\ Get(ST, args.key) = <<pre.store[args.key], TRUE>>
               /\ heap[store[args.key]].kind = "List"
               /\ Forward(heap[store[args.key]].els) =
                     IF op = "LPOP" THEN Tail(ListBefore)
                     ELSE SubSeq(ListBefore, 1, Len(ListBefore) - 1)

\* An RPOP took the only element of a list and the key is gone.
C26_Witness ==
    /\ op = "RPOP"
    /\ Len(ListBefore) = 1
    /\ ret.ret = ListBefore[1]
    /\ store[args.key] = NoValue

\* C28: a ZADD that returns an error leaves the store and the sorted set of
\* its key as they were: no key is created, no pair is applied.
C28_ErrorLeavesUnchanged ==
    op = "ZADD" /\ ret.err # NoErr =>
       /\ store = pre.store
       /\ expires = pre.expires
       /\ heap = pre.heap

\* ZScore of member in the sorted set under key (absent when the key holds
\* no sorted set).
ScoreIn(w, key, member) ==
    IF w.store[key] # NoValue /\ w.heap[w.store[key]].kind = "SortedSet"
    THEN ZScore(w.heap[w.store[key]].ss, member).ret
    ELSE <<0, FALSE>>

\* Whether a pair that would give the member the score new passes the
\* options, the member having the score existingScore if it exists.
Passes(opts, new, existingScore, exists) ==
    /\ "NX" \in opts => ~exists
    /\ "XX" \in opts => exists
    /\ "GT" \in opts /\ exists => new > existingScore
    /\ "LT" \in opts /\ exists => new < existingScore

\* The pairs of a ZADD whose member the command names once.
SinglePairs(rest) ==
    {j \in 1..(Len(rest) \div 2) :
        \A k \in 1..(Len(rest) \div 2) : rest[2 * k] = rest[2 * j] => k = j}

\* C30: in a ZADD run on its own, a pair that does not pass every option
\* given (NX, XX, GT, LT against the score the member would get) is skipped:
\* the member keeps its score, or stays absent.
C30_OptionsRespected ==
    op = "ZADD" /\ ~ret.fault /\ Len(args.rest) % 2 = 0
                /\ (\A i \in DOMAIN args.rest : args.rest[i] # BadToken) =>
       \A j \in SinglePairs(args.rest) :
          LET member == args.rest[2 * j]
              before == ScoreIn(pre, args.key, member)
              new    == Incremented(args.opts, args.rest[2 * j - 1], before[1], before[2])
          IN  ~Passes(args.opts, new, before[1], before[2]) =>
                 ScoreIn(World, args.key, member) = before

\* ----------------------------------------------------------- race claims
\* The evaluators that are past getOrCreateSortedSet.
Obtained == {g \in Evaluators : epc[g] \in {"zscore", "zadd", "done"}}

AllDone == \A g \in Evaluators : epc[g] = "done"

\* C27: evaluators that run getOrCreateSortedSet in parallel for a key that
\* was absent all obtain the instance stored under the key, and no member
\* one of them adds is lost.
C27_OneInstance ==
    /\ \A g \in Obtained : pre.store[RaceKey] = NoValue => frame[g].obj = store[RaceKey]
    /\ AllDone /\ pre.store[RaceKey] = NoValue =>
          \A g \in Evaluators : ScoreIn(World, RaceKey, frame[g].member)[2]

\* The sum of the increments of the evaluators of gs.
RECURSIVE SumD(_)
SumD(gs) ==
    IF gs = {} THEN 0
    ELSE LET g == CHOOSE x \in gs : TRUE IN frame[g].d + SumD(gs \ {g})

\* C29: when the parallel commands ZADD key INCR d member, all on the same
\* member of the same sorted set, are done, the score of the member is its
\* score before them (0 if it was absent) plus the sum of the increments.
C29_IncrAtomic ==
    /\ AllDone
    /\ \A g \in Evaluators : frame[g].obj = store[RaceKey]
    /\ \A g, h \in Evaluators : frame[g].member = frame[h].member
    => \A g \in Evaluators :
          ScoreIn(World, RaceKey, frame[g].member) =
             <<ScoreIn(pre, RaceKey, frame[g].member)[1] + SumD(Evaluators), TRUE>>

\* ------------------------------------------------- ZADD result claims
\* A ZADD without INCR that returned a count: every argument parsed and
\* every member is named by one pair.
CountingZADD ==
    /\ op = "ZADD" /\ ~ret.fault /\ ret.err = NoErr
    /\ "INCR" \notin args.opts
    /\ SinglePairs(args.rest) = 1..(Len(args.rest) \div 2)

\* The members the command added: absent before it, present after it.
NewlyAdded ==
    {m \in EvalMembers : ~ScoreIn(pre, args.key, m)[2] /\ ScoreIn(World, args.key, m)[2]}

\* The members that existed before the command and whose score it changed.
ScoreChanged ==
    {m \in EvalMembers : /\ ScoreIn(pre, args.key, m)[2]
                         /\ ScoreIn(World, args.key, m) # ScoreIn(pre, args.key, m)}

\* The part of C31 about ZADD without CH: the result is the number of
\* members newly added.
WithoutCHCountsAdded ==
    CountingZADD /\ "CH" \notin args.opts => ret.ret = Cardinality(NewlyAdded)

\* C31: ZADD without CH returns the number of members newly added, and ZADD
\* with CH returns that number plus the number of existing members whose
\* score changed; a pair whose score is the member's current score counts
\* in neither.
C31_AddedAndChanged ==
    CountingZADD =>
       ret.ret = Cardinality(NewlyAdded)
                 + (IF "CH" \in args.opts THEN Cardinality(ScoreChanged) ELSE 0)

\* ---------------------------------------------------------- list claims
\* The keys that hold a list.
ListKeys(w) == {k \in EvalKeys : w.store[k] # NoValue /\ w.heap[w.store[k]].kind = "List"}

\* C32: whatever list commands ran, failed ones included, every list stored
\* under a key has an element, and an LPOP or RPOP of a key that holds a
\* list does not dereference a nil head or tail.
C32_StoredListsNonEmpty ==
    /\ \A k \in ListKeys(World) :
          /\ LLen(heap[store[k]].els) > 0
          /\ heap[store[k]].els.head # Nil
          /\ heap[store[k]].els.tail # Nil
    /\ op \in {"LPOP", "RPOP"} /\ args.key \in ListKeys(pre) => ~ret.fault

\* C33: LPush(v) puts v at the head (LIndex(0) is v and LPop would return
\* v), RPush(v) puts v at the tail (LIndex(-1) is v and RPop would return v).
C33_PushEnds ==
    /\ op = "LPush" => LIndex(list, 0).el = args.el /\ LPop(list).el = args.el
    /\ op = "RPush" => LIndex(list, 0 - 1).el = args.el /\ RPop(list).el = args.el

\* els without its first k elements equal to v (all of them when k < 0).
RECURSIVE RemoveFirst(_, _, _)
RemoveFirst(els, v, k) ==
    IF els = <<>> THEN <<>>
    ELSE IF Head(els) = v /\ k # 0 THEN RemoveFirst(Tail(els), v, k - 1)
    ELSE <<Head(els)>> \o RemoveFirst(Tail(els), v, k)

\* The number of elements of els equal to v.
Occurrences(els, v) == Cardinality({i \in DOMAIN els : els[i] = v})

\* C34: LRem(count, v) with count > 0 removes the min(count, occurrences)
\* elements equal to v nearest the head and returns that number; with
\* count <= 0 it removes every element equal to v; the other elements keep
\* their order.
C34_LRem ==
    op = "LRem" =>
       LET before == Forward(pre)
           occ    == Occurrences(before, args.el)
           n      == IF args.count > 0 /\ args.count < occ THEN args.count ELSE occ
       IN  /\ ~ret.fault
           /\ ret.removed = n
           /\ Forward(list) = RemoveFirst(before, args.el, n)

\* The addresses met from the head through next and from the tail through
\* prev, at most k of them.
RECURSIVE NextWalk(_, _, _)
NextWalk(b, n, k) ==
    IF n = Nil \/ k = 0 THEN <<>> ELSE <<n>> \o NextWalk(b, b.node[n].next, k - 1)

RECURSIVE PrevWalk(_, _, _)
PrevWalk(b, n, k) ==
    IF n = Nil \/ k = 0 THEN <<>> ELSE <<n>> \o PrevWalk(b, b.node[n].prev, k - 1)

Reversed(s) == [i \in DOMAIN s |-> s[Len(s) + 1 - i]]

WellFormed(b) ==
    LET fwd == NextWalk(b, b.head, MaxListNodes + 1)
        bwd == PrevWalk(b, b.tail, MaxListNodes + 1)
    IN  /\ b.size = Len(fwd)
        /\ b.head # Nil => b.node[b.head].prev = Nil
        /\ b.tail # Nil => b.node[b.tail].next = Nil
        /\ \A i \in DOMAIN fwd :
              b.node[fwd[i]].next # Nil => b.node[b.node[fwd[i]].next].prev = fwd[i]
        /\ bwd = Reversed(fwd)
        /\ (b.head = Nil) <=> (b.size = 0)
        /\ (b.tail = Nil) <=> (b.size = 0)

\* C35: after any sequence of LPush, RPush, LPop, RPop, LRem, LTrim and LSet
\* the List is a well-formed doubly linked list: size is the number of nodes
\* from head through next, head.prev and tail.next are nil, n.next.prev = n,
\* the walk back from the tail is the reverse of the walk from the head, and
\* head and tail are nil exactly when size is 0.
C35_WellFormed == WellFormed(list)

\* An LRem took the middle node out of a list of three.
C35_Witness ==
    /\ op = "LRem"
    /\ pre.size = 3
    /\ list.size = 2
    /\ list.head = pre.head
    /\ list.tail = pre.tail
    /\ WellFormed(list)

\* ----------------------------------------------------------- set claims
\* The values of the call all parse as the element type of the first.
AllParse(values) == \A i \in DOMAIN values : ~ParseAs(ElemType(values[1]), values[i]).err

\* The elements the values stand for.
Parsed(values) == {ParseAs(ElemType(values[1]), values[i]).val : i \in DOMAIN values}

\* C36: NewSet returns an error for an empty slice; for a non-empty slice
\* whose values all parse as the element type taken from the first value it
\* returns, without a panic, a set that contains exactly those values.
C36_NewSet ==
    op = "NewSet" =>
       IF Len(args.values) = 0 THEN ret.err # NoErr /\ ~ret.fault
       ELSE AllParse(args.values) =>
               /\ ~ret.fault
               /\ ret.err = NoErr
               /\ \A e \in Parsed(args.values) : Contains(ret.set, e)
               /\ Size(ret.set) = Cardinality(Parsed(args.values))

====
